---- MODULE Spec2Model ----
(***************************************************************************)
(* Queue Reconciliation Engine of the Sleeper draft queue helper           *)
(* (src/content-sleeper.js, class SleeperDraftHelper).                     *)
(*                                                                         *)
(* The live page is external state.  It is modelled by the set of remove   *)
(* buttons attached to the document and the subset of them that is         *)
(* visible (offsetParent non-null), by the rows of the player list that    *)
(* are rendered and visible, and by the filter input.  The host page may   *)
(* change that state at every suspension point (await) of the engine.      *)
(***************************************************************************)
EXTENDS Integers, Sequences, FiniteSets, TLC

\* ---------------------------------------------------------------- bounds
\* Number of remove-button handles the page can ever show.
MaxQueue == 2

\* Rows the player list can render.
MaxRows == 2

\* Length of the analysed list a queuePlayers run works through.
MaxPlayers == 2

\* Outcomes of a clear run that the model keeps apart; a run that records
\* more than this many outcomes stays in the saturated state.
MaxOutcomes == MaxQueue + 2

Entries == 1..MaxQueue

\* Last tick of the clock.
MaxTime == 4

\* getPlayers activations that can be in progress together.
MaxCalls == 2

\* Records of a roster.
MaxRoster == 2

\* Names of a list given to processPlayerList.
MaxNames == 3

\* Characters of a string given to asciiFold.
MaxLen == 3

\* Pieces of a text given to extractPlayerName.
MaxPieces == 4

\* Records of a roster given to findBestMatch.
MaxCandidates == 3

\* Line 22: this.rateLimitDelay (100 ms), in ticks of 50 ms.
rateLimitDelay == 2

\* Line 23: this.cacheExpiry (24 h), counted in ticks; only its comparison
\* with the age of the entry matters (line 135).
cacheExpiry == 3

NoEntry == 0

VARIABLES
    \* ---- the page: queue panel
    attached,        \* remove buttons contained in the document
    visible,         \* remove buttons with a non-null offsetParent
    \* ---- clearQueue() activation
    cq_pc,           \* position of the clearQueue control flow
    queuedPlayers,   \* let queuedPlayers (line 1016 / 1079)
    totalPlayers,    \* let totalPlayers  (line 1029)
    currentIndex,    \* const currentIndex (line 1036)
    queuedPlayer,    \* const queuedPlayer (line 1035): handle acted on
    removeResult,    \* value returned by removePlayerFromQueue
    successCount,    \* line 1026
    failureCount,    \* line 1027
    clearResults,    \* line 1028: statuses pushed, in order
    \* ---- observations of the current clear run (history only)
    lastScan,        \* result of the most recent findQueuedPlayers call
    rescans,         \* re-scans taken in this run (0, 1, 2 = two or more)
    phase,           \* what happened since the last removal attempt
    attempt,         \* facts about the current removal attempt
    iterations,      \* loop bodies entered in this run (kept apart up to MaxOutcomes)
    removeClicks,    \* remove buttons clicked during this run
    \* ---- the page: player list and its search box
    rowState,        \* per row: "absent", "hidden" or "shown"
    inQueue,         \* rows whose player the page has put in the queue
    hasInput,        \* a search input matches one of searchSelectors
    hasHandler,      \* the input carries a React fiber with an onChange
    inputValue,      \* searchInput.value
    hostFilter,      \* the value the page's own onChange last accepted
    \* ---- queuePlayers() activation
    lastAnalysis,    \* this.lastAnalysis: bestMatch.full_name per item
    runList,         \* this.lastAnalysis as the current run found it (history only)
    qp_pc,           \* position of the queuePlayers control flow
    qi,              \* loop index i (0-based, line 926)
    queueResults,    \* line 922: statuses pushed, in order
    qSuccess,        \* successCount (line 920)
    qFailure,        \* failureCount (line 921)
    \* ---- addPlayerToQueue() activation and the search below it
    add_pc,          \* position inside addPlayerToQueue and its callees
    playerName,      \* the argument of addPlayerToQueue
    varIdx,          \* 1-based index of the current nameVariation
    candidates,      \* matching elements of the NodeList not yet examined
    elem,            \* the action element found (its row), or NoRow
    addResult,       \* value returned by addPlayerToQueue
    \* ---- observations of the current addPlayerToQueue call (history only)
    obs,
    \* ---- the caller of the batch operations
    cancelRequested, \* the caller wants the running batch stopped
    \* ---- the SleeperAPI instance (sleeper-api.js)
    apiCache,        \* this.cache.get('nfl_players'): the entry, if present
    lastFetch,       \* this.lastFetch: start of the latest request, or NoTime
    now,             \* Date.now(), in ticks
    call,            \* per getPlayers activation: position, argument, result
    \* ---- the helper's roster and what its panel shows
    players,         \* this.players: a roster, or "null"
    ld_pc,           \* position of loadPlayers
    panel,           \* '#analysis-results' after analyzePlayers / validateQueue
    \* ---- a NameMatcher call under examination
    lib_call,        \* the function called and its arguments
    lib_result,      \* what the call returned
    regexCache       \* nameRegexes: the patterns compiled so far

clearVars == <<cq_pc, queuedPlayers, totalPlayers, currentIndex, queuedPlayer,
               removeResult, successCount, failureCount, clearResults,
               lastScan, rescans, phase, attempt, iterations, removeClicks>>

pageQueueVars == <<attached, visible>>

pageListVars == <<rowState, inQueue, hasInput, hasHandler, inputValue,
                  hostFilter>>

queueRunVars == <<lastAnalysis, runList, qp_pc, qi, queueResults, qSuccess,
                  qFailure>>

addCallVars == <<add_pc, playerName, varIdx, candidates, elem, addResult,
                 obs>>

addSide == <<pageListVars, queueRunVars, addCallVars>>

clearSide == <<pageQueueVars, clearVars>>

apiSide == <<apiCache, lastFetch, now, call>>

uiSide == <<addSide, clearSide, cancelRequested>>

rosterSide == <<players, ld_pc, panel>>

libSide == <<lib_call, lib_result, regexCache>>

vars == <<attached, visible, cq_pc, queuedPlayers, totalPlayers, currentIndex,
          queuedPlayer, removeResult, successCount, failureCount,
          clearResults, lastScan, rescans, phase, attempt, iterations,
          removeClicks, rowState, inQueue, hasInput, hasHandler, inputValue,
          hostFilter, lastAnalysis, runList, qp_pc, qi, queueResults, qSuccess,
          qFailure, add_pc, playerName, varIdx, candidates, elem, addResult,
          obs, cancelRequested, apiCache, lastFetch, now, call, players,
          ld_pc, panel, lib_call, lib_result, regexCache>>


\* ------------------------------------------------------------- strings
\* A string is the sequence of its characters.
ToLowerChar(c) ==
    CASE c = "A" -> "a" [] c = "B" -> "b" [] c = "C" -> "c"
      [] c = "J" -> "j" [] c = "Q" -> "q" [] OTHER -> c

ToUpperChar(c) ==
    CASE c = "a" -> "A" [] c = "b" -> "B" [] c = "c" -> "C"
      [] c = "j" -> "J" [] c = "l" -> "L" [] c = "o" -> "O"
      [] c = "q" -> "Q" [] c = "y" -> "Y" [] c = "z" -> "Z" [] OTHER -> c

LowerLetters == {"a", "b", "c", "j", "l", "o", "q", "y", "z"}

\* String.prototype.toLowerCase / toUpperCase.
toLowerCase(str) == [i \in 1..Len(str) |-> ToLowerChar(str[i])]

toUpperCase(str) == [i \in 1..Len(str) |-> ToUpperChar(str[i])]

\* .replace(/[^a-z\s]/g, ' ')
lettersOnly(str) ==
    [i \in 1..Len(str) |->
        IF str[i] \in LowerLetters \/ str[i] = " " THEN str[i] ELSE " "]

\* .replace(/'/g, '')
removeApostrophes(str) == SelectSeq(str, LAMBDA c : c # "'")

\* String.prototype.includes
includes(text, pat) ==
    \E i \in 0..(Len(text) - Len(pat)) :
        \A j \in 1..Len(pat) : text[i + j] = pat[j]

RECURSIVE splitFrom(_, _, _)
splitFrom(str, i, cur) ==
    IF i > Len(str) THEN <<cur>>
    ELSE IF str[i] = " " THEN <<cur>> \o splitFrom(str, i + 1, <<>>)
    ELSE splitFrom(str, i + 1, Append(cur, str[i]))

\* String.prototype.split(' '): empty pieces are kept.
split(str) == splitFrom(str, 1, <<>>)

Last(seq) == seq[Len(seq)]


\* ---------------------------------------------------------- name-matching
\* asciiToDiacritic (lines 35-50): ASCII replacement, accented characters.
\* A character outside ASCII is written as its code point.
asciiToDiacritic ==
    <<
       <<<<"A">>,
          <<"U+00C0", "U+00C1", "U+00C2", "U+00C4", "U+00C3", "U+00C5",
            "U+0100">>>>,
       <<<<"A", "E">>, <<"U+00C6">>>>,
       <<<<"C">>, <<"U+00C7", "U+0106", "U+010C">>>>,
       <<<<"E">>,
          <<"U+00C8", "U+00C9", "U+00CA", "U+00CB", "U+0112", "U+0116",
            "U+0118">>>>,
       <<<<"I">>,
          <<"U+00CE", "U+00CF", "U+00CD", "U+012A", "U+012E", "U+00CC">>>>,
       <<<<"L">>, <<"U+0141">>>>,
       <<<<"N">>, <<"U+00D1", "U+0143">>>>,
       <<<<"O">>,
          <<"U+00D4", "U+00D6", "U+00D2", "U+00D3", "U+00D8", "U+014C",
            "U+00D5">>>>,
       <<<<"O", "E">>, <<"U+0152">>>>,
       <<<<"S">>, <<"U+015A", "U+0160">>>>,
       <<<<"U">>, <<"U+00DB", "U+00DC", "U+00D9", "U+00DA", "U+016A">>>>,
       <<<<"Y">>, <<"U+0178">>>>,
       <<<<"Z">>, <<"U+017D", "U+0179", "U+017B">>>>,
       <<<<"a">>,
          <<"U+00E0", "U+00E1", "U+00E2", "U+00E4", "U+00E3", "U+00E5">>>>,
       <<<<"a", "e">>, <<"U+00E6">>>>,
       <<<<"c">>, <<"U+00E7", "U+0107", "U+010D">>>>,
       <<<<"e">>,
          <<"U+00E8", "U+00E9", "U+00EA", "U+00EB", "U+0113", "U+0117",
            "U+0119">>>>,
       <<<<"i">>,
          <<"U+00EE", "U+00EF", "U+00ED", "U+012B", "U+012F", "U+00EC">>>>,
       <<<<"l">>, <<"U+0142">>>>,
       <<<<"n">>, <<"U+00F1", "U+0144">>>>,
       <<<<"o">>,
          <<"U+00F4", "U+00F6", "U+00F2", "U+00F3", "U+00F8", "U+014D",
            "U+00F5">>>>,
       <<<<"o", "e">>, <<"U+0153">>>>,
       <<<<"s">>, <<"U+015B", "U+0161">>>>,
       <<<<"s", "s">>, <<"U+00DF">>>>,
       <<<<"u">>, <<"U+00FB", "U+00FC", "U+00F9", "U+00FA", "U+016B">>>>,
       <<<<"y">>, <<"U+00FF">>>>,
       <<<<"z">>, <<"U+017E", "U+017A", "U+017C">>>>
    >>

\* The accented characters of the table.
Diacritics ==
    UNION {{asciiToDiacritic[k][2][j] : j \in DOMAIN asciiToDiacritic[k][2]} :
              k \in DOMAIN asciiToDiacritic}

\* Lines 52-58: asciiLookup, filled in the order of the table.
asciiLookup ==
    [c \in Diacritics |->
        asciiToDiacritic[
            CHOOSE k \in DOMAIN asciiToDiacritic :
                /\ \E j \in DOMAIN asciiToDiacritic[k][2] :
                       asciiToDiacritic[k][2][j] = c
                /\ \A h \in DOMAIN asciiToDiacritic :
                       (\E j \in DOMAIN asciiToDiacritic[h][2] :
                            asciiToDiacritic[h][2][j] = c) => h <= k][1]]

\* A variant that replaces the first character only.
asciiFold_head(str) ==
    IF str = <<>> THEN <<>>
    ELSE (IF Head(str) \in Diacritics THEN asciiLookup[Head(str)]
          ELSE <<Head(str)>>)
         \o Tail(str)

RECURSIVE asciiFold(_)
\* Lines 60-64: every character is replaced by its lookup entry, if any.
asciiFold(str) ==
    IF str = <<>> THEN <<>>
    ELSE (IF Head(str) \in Diacritics THEN asciiLookup[Head(str)]
          ELSE <<Head(str)>>)
         \o asciiFold(Tail(str))

UpperAlphabet == <<"A", "B", "C", "D", "E", "F", "G", "H", "I", "J", "K", "L", "M", "N", "O", "P", "Q", "R", "S", "T", "U", "V", "W", "X", "Y", "Z">>

LowerAlphabet == <<"a", "b", "c", "d", "e", "f", "g", "h", "i", "j", "k", "l", "m", "n", "o", "p", "q", "r", "s", "t", "u", "v", "w", "x", "y", "z">>

\* The 'i' flag of the patterns and toLowerCase (line 222), on the letters
\* that remain after folding.
UpperLetters == {UpperAlphabet[k] : k \in DOMAIN UpperAlphabet}

LowerOf ==
    [c \in UpperLetters |->
        LowerAlphabet[CHOOSE k \in DOMAIN UpperAlphabet : UpperAlphabet[k] = c]]

LowerChar(c) == IF c \in UpperLetters THEN LowerOf[c] ELSE c

Lower(str) == [i \in 1..Len(str) |-> LowerChar(str[i])]

\* A pattern is a sequence of elements; an element is the set of texts it
\* can match (one text for a literal, several for a group or an optional
\* part). All the patterns of this file are anchored at the start and
\* case-insensitive, so their texts are kept in lower case.

\* firstNamePatterns (lines 67-92): /^<stem>(<tails>) /i.
firstNamePatterns ==
    <<
       [stem |-> <<"a", "l", "e", "x">>,
        tails |-> {<<>>, <<"a", "n", "d", "e", "r">>}],
       [stem |-> <<"b", "e", "n">>,
        tails |-> {<<>>, <<"j", "a", "m", "i", "n">>}],
       [stem |-> <<"b", "r", "a", "d">>,
        tails |-> {<<>>, <<"l", "e", "y">>}],
       [stem |-> <<"c", "a", "m">>,
        tails |-> {<<>>, <<"e", "r", "o", "n">>}],
       [stem |-> <<"c", "h", "r", "i", "s">>,
        tails |-> {<<>>, <<"t", "o", "p", "h", "e", "r">>}],
       [stem |-> <<"d", "a", "n">>,
        tails |-> {<<>>, <<"i", "e", "l">>}],
       [stem |-> <<"d", "a", "v">>,
        tails |-> {<<"e">>, <<"i", "d">>}],
       [stem |-> <<"g", "r", "e", "g">>,
        tails |-> {<<>>, <<"o", "r", "y">>}],
       [stem |-> <<"j", "a">>,
        tails |-> {<<"k", "e">>, <<"c", "o", "b">>, <<"k", "o", "b">>}],
       [stem |-> <<"j", "o">>,
        tails |-> {<<"e">>, <<"s", "e", "p", "h">>}],
       [stem |-> <<"j", "o", "n">>,
        tails |-> {<<>>, <<"a", "t", "h", "a", "n">>}],
       [stem |-> <<"j", "o", "s", "h">>,
        tails |-> {<<>>, <<"u", "a">>}],
       [stem |-> <<"k", "e", "n">>,
        tails |-> {<<>>, <<"n", "e", "t", "h">>}],
       [stem |-> <<"m", "a", "t", "t">>,
        tails |-> {<<>>, <<"h", "e", "w">>}],
       [stem |-> <<"m", "i">>,
        tails |-> {<<"k", "e">>, <<"c", "h", "a", "e", "l">>}],
       [stem |-> <<"m", "i", "t", "c", "h">>,
        tails |-> {<<>>, <<"e", "l", "l">>}],
       [stem |-> <<"n", "a", "t">>,
        tails |-> {<<"e">>, <<"h", "a", "n">>}],
       [stem |-> <<"n", "i", "c">>,
        tails |-> {<<"k">>, <<"k", "y">>, <<"h", "o", "l", "a", "s">>}],
       [stem |-> <<"n", "o", "r", "i">>,
        tails |-> {<<>>, <<"c", "h", "i", "k", "a">>}],
       [stem |-> <<"r", "o", "b">>,
        tails |-> {<<>>, <<"e", "r", "t">>}],
       [stem |-> <<"s", "t", "e">>,
        tails |-> {<<"v", "e">>, <<"v", "i", "e">>, <<"p", "h", "e", "n">>}],
       [stem |-> <<"v", "i", "n", "c", "e">>,
        tails |-> {<<>>, <<"n", "t">>}],
       [stem |-> <<"w", "i", "l">>,
        tails |-> {<<>>, <<"l">>, <<"l", "i", "a", "m">>}],
       [stem |-> <<"y", "u", "l", "i">>,
        tails |-> {<<>>, <<"e", "s", "k", "i">>}]
    >>

\* nameRegexes (lines 95-102): the manual overrides, keyed by exact name.
nameRegexes ==
    <<
       [name |-> <<"C", "o", "r", "e", "y", " ", "B", "r", "o", "w", "n">>,
        regex |-> <<{<<"c", "o", "r", "e", "y">>, <<"p", "h", "i", "l", "l", "y">>}, {<<" ", "b", "r", "o", "w", "n">>}>>],
       [name |-> <<"P", "i", "e", "r", "r", "e", "-", "A", "l", "e", "x", "a", "n", "d", "r", " ", "P", "a", "r", "e", "n", "t", "e", "a", "u">>,
        regex |-> <<{<<"p", "i", "e", "r", "r", "e", "-", "a", "l", "e", "x", "a", "n", "d", "r">>}, {<<>>, <<"e">>}, {<<" ", "p", "a", "r", "e", "n", "t", "e", "a", "u">>}>>],
       [name |-> <<"C", "a", "r", "l", " ", "E", "d", "w", "a", "r", "d", "s", " ", "J", "r", ".">>,
        regex |-> <<{<<"c", "a", "r", "l">>, <<"c", ".", "j", ".">>}, {<<" ", "e", "d", "w", "a", "r", "d", "s">>}, {<<>>, <<" ", "j", "r", ".">>}>>],
       [name |-> <<"A", "d", "a", "l", "b", "e", "r", "t", "o", " ", "M", "o", "n", "d", "e", "s", "i">>,
        regex |-> <<{<<>>, <<"r", "a", "u", "l", " ">>}, {<<"a", "d", "a", "l", "b", "e", "r", "t", "o", " ", "m", "o", "n", "d", "e", "s", "i">>}>>],
       [name |-> <<"M", "i", "c", "h", "a", "e", "l", " ", "A", ".", " ", "T", "a", "y", "l", "o", "r">>,
        regex |-> <<{<<"m", "i", "c", "h", "a", "e", "l", " ">>}, {<<>>, <<"a", ".", " ">>}, {<<"t", "a", "y", "l", "o", "r">>}>>],
       [name |-> <<"M", "y", "c", "h", "a", "l", " ", "G", "i", "v", "e", "n", "s">>,
        regex |-> <<{<<"m", "y", "c", "h", "a", "l", " ">>}, {<<>>, <<"a", "n", "t", "o", "n", "i", "o", " ">>}, {<<"g", "i", "v", "e", "n", "s">>}>>]
    >>

\* Line 106: name.replace(/([\-\.])/g, '[ \\$1]?'), then read as a pattern:
\* a hyphen or period becomes an optional space-or-that-character.
BodyPattern(name) ==
    [i \in 1..Len(name) |->
        IF name[i] \in {"-", "."} THEN {<<>>, <<" ">>, <<name[i]>>}
        ELSE {<<LowerChar(name[i])>>}]

\* Index of the first space of a string, 0 if it has none.
FirstSpace(str) ==
    IF \E i \in 1..Len(str) : str[i] = " "
       THEN CHOOSE i \in 1..Len(str) :
                str[i] = " " /\ \A j \in 1..(i - 1) : str[j] # " "
       ELSE 0

\* Line 110: pattern.match(f) for the first-name pattern f: the text up to
\* the first space is the stem followed by one of the tails.
FirstNameApplies(name, f) ==
    /\ FirstSpace(name) > 0
    /\ \E t \in f.tails :
         Lower(SubSeq(name, 1, FirstSpace(name) - 1)) = f.stem \o t

\* Lines 106-119 and 121: the pattern compiled for a name: the body, with
\* the leading first name replaced by the source of the first first-name
\* pattern it matches (lines 109-115) or anchored as it is (lines 117-119).
compileName(name) ==
    IF \E k \in DOMAIN firstNamePatterns :
            FirstNameApplies(name, firstNamePatterns[k])
       THEN LET k == CHOOSE k \in DOMAIN firstNamePatterns :
                       /\ FirstNameApplies(name, firstNamePatterns[k])
                       /\ \A h \in 1..(k - 1) :
                              ~FirstNameApplies(name, firstNamePatterns[h])
                f == firstNamePatterns[k]
            IN  <<{f.stem}, f.tails, {<<" ">>}>>
                \o BodyPattern(SubSeq(name, FirstSpace(name) + 1, Len(name)))
       ELSE BodyPattern(name)

\* Line 121: new RegExp(pattern, 'i') raises a SyntaxError for a pattern that
\* is not well formed. Only hyphens and periods are rewritten at line 106,
\* so an opening parenthesis of the name reaches the pattern as it is; the
\* names examined here contain no closing one, and the group it opens is
\* never terminated.
ValidPattern(name) == \A i \in 1..Len(name) : name[i] # "("

\* Line 105: nameRegexes[name] is present. The cache is the sequence of its
\* entries in order of insertion, the overrides first.
cached(cache, name) == \E k \in DOMAIN cache : cache[k].name = name

\* A variant that returns the entry stored last.
lookupRegex_latest(cache, name) == cache[Len(cache)].regex

\* Line 124: nameRegexes[name].
lookupRegex(cache, name) ==
    cache[CHOOSE k \in DOMAIN cache : cache[k].name = name].regex

\* The element of a set of one element. A value that a call computes once
\* and then uses several times is bound as the element of such a set, which
\* evaluates it once.
The(S) == CHOOSE x \in S : TRUE

\* Lines 104-125: the cached pattern; on a miss the pattern is compiled and
\* stored first, and nothing is stored when compiling raises.
nameToRegex(cache, name) ==
    IF cached(cache, name)
       THEN [thrown |-> FALSE, regex |-> lookupRegex(cache, name), cache |-> cache]
    ELSE IF ~ValidPattern(name)
       THEN [thrown |-> TRUE, regex |-> <<>>, cache |-> cache]
    ELSE The({[thrown |-> FALSE, regex |-> lookupRegex(stored, name),
               cache |-> stored] :
                 stored \in {Append(cache, [name |-> name,
                                            regex |-> compileName(name)])}})

RECURSIVE MatchEnds(_, _, _)
\* The positions of str at which a match of the pattern's elements can end
\* when it starts at one of the positions of from.
MatchEnds(str, regex, from) ==
    IF regex = <<>> THEN from
    ELSE MatchEnds(str, Tail(regex),
            {p + Len(a) : <<p, a>> \in
                {pa \in from \X Head(regex) :
                    /\ pa[1] + Len(pa[2]) <= Len(str)
                    /\ SubSeq(str, pa[1] + 1, pa[1] + Len(pa[2])) = pa[2]}})

\* String.prototype.match with one of these patterns: some choice of the
\* elements' texts is a prefix of the string, letter case aside.
match(str, regex) == MatchEnds(Lower(str), regex, {0}) # {}

\* Lines 136-149, called with the cache in a given state: the outcome
\* ("true", "false", or "throws" when a pattern does not compile) and the
\* cache it leaves. The pattern of n0 is asked for only when n0 does not
\* match the pattern of n1.
namesMatch(cache, n0, n1) ==
    The({IF r1.thrown THEN [outcome |-> "throws", cache |-> r1.cache]
         ELSE IF match(f0, r1.regex) THEN [outcome |-> "true", cache |-> r1.cache]
         ELSE The({IF r0.thrown THEN [outcome |-> "throws", cache |-> r0.cache]
                   ELSE [outcome |-> IF match(f1, r0.regex) THEN "true"
                                     ELSE "false",
                         cache |-> r0.cache] :
                       r0 \in {nameToRegex(r1.cache, f0)}}) :
            f0 \in {asciiFold(n0)}, f1 \in {asciiFold(n1)},
            r1 \in {nameToRegex(cache, asciiFold(n1))}})

\* ------------------------------------------------------------- helpers
Min(a, b) == IF a < b THEN a ELSE b

\* An option that the caller passed, and one that it left out.
Given(v) == [given |-> TRUE, val |-> v]

NotGiven == [given |-> FALSE, val |-> FALSE]

\* Lines 164-169: the defaults of the destructured options.
OptionOr(opt, default) == IF opt.given THEN opt.val ELSE default

\* A variant in which no position earns the bonus.
fantasyPositions_none == {}

\* Line 236.
fantasyPositions == {"QB", "RB", "WR", "TE", "K", "DEF"}

\* A variant without the final clamp.
calculateConfidence_unclamped(searchName, name, playerData) ==
    (IF Lower(searchName) = Lower(name) THEN 100 ELSE 50)
    + (IF playerData.status = "Active" THEN 20 ELSE 0)
    + (IF playerData.team # "" THEN 10 ELSE 0)
    + (IF playerData.position \in fantasyPositions THEN 15 ELSE 0)

\* Lines 218-243. Confidence is counted in hundredths: the doubles that the
\* additions of 0.2, 0.1 and 0.15 to 0.5 or 1.0 produce compare with each
\* other, and with each other plus 0.1, as the exact sums do.
calculateConfidence(searchName, name, playerData) ==
    LET base == IF Lower(searchName) = Lower(name) THEN 100 ELSE 50
        active == IF playerData.status = "Active" THEN 20 ELSE 0
        team == IF playerData.team # "" THEN 10 ELSE 0
        pos == IF playerData.position \in fantasyPositions THEN 15 ELSE 0
    IN  Min(base + active + team + pos, 100)

\* Line 184.
fullNameOf(player) == player.first_name \o <<" ">> \o player.last_name

\* A variant that keeps a record without a last name.
PassesSkips_lastNameOptional(player, options) ==
    /\ player.first_name # <<>>
    /\ ~(OptionOr(options.requireActive, TRUE) /\ player.status # "Active")
    /\ ~(/\ OptionOr(options.requirePosition, FALSE)
         /\ options.preferredPositions.given
         /\ player.position \notin options.preferredPositions.val)

\* Lines 174-181: the record is not skipped.
PassesSkips(player, options) ==
    /\ player.first_name # <<>> /\ player.last_name # <<>>
    /\ ~(OptionOr(options.requireActive, TRUE) /\ player.status # "Active")
    /\ ~(/\ OptionOr(options.requirePosition, FALSE)
         /\ options.preferredPositions.given
         /\ player.position \notin options.preferredPositions.val)

\* Lines 187-192: the entry pushed for a kept record.
MatchOf(searchName, roster, id) ==
    [playerId |-> id,
     first_name |-> roster[id].first_name,
     last_name |-> roster[id].last_name,
     status |-> roster[id].status,
     position |-> roster[id].position,
     team |-> roster[id].team,
     fullName |-> fullNameOf(roster[id]),
     confidence |-> calculateConfidence(searchName, fullNameOf(roster[id]),
                                        roster[id])]

\* A variant that orders by confidence only.
SortsBefore_confidenceOnly(a, b, preferActive) ==
    b.confidence - a.confidence < 0

\* Lines 197-204: the comparator's sign is negative.
SortsBefore(a, b, preferActive) ==
    IF preferActive /\ a.status # b.status /\ a.status = "Active" THEN TRUE
    ELSE IF preferActive /\ a.status # b.status /\ b.status = "Active" THEN FALSE
    ELSE b.confidence - a.confidence < 0

RECURSIVE InsertSorted(_, _, _)
InsertSorted(x, sorted, preferActive) ==
    IF sorted = <<>> THEN <<x>>
    ELSE IF SortsBefore(x, Head(sorted), preferActive) THEN <<x>> \o sorted
    ELSE <<Head(sorted)>> \o InsertSorted(x, Tail(sorted), preferActive)

RECURSIVE SortMatches(_, _)
\* Array.prototype.sort (line 196) is stable: entries that the comparator
\* does not order keep their order of insertion.
SortMatches(matches, preferActive) ==
    IF matches = <<>> THEN <<>>
    ELSE InsertSorted(matches[Len(matches)],
                      SortMatches(SubSeq(matches, 1, Len(matches) - 1), preferActive),
                      preferActive)

RECURSIVE Collect(_, _, _, _, _)
\* Lines 171-194: Object.entries visits the ids in ascending order; each
\* record that is not skipped is compared through namesMatch, which may
\* raise and leaves its patterns in the cache.
Collect(cache, searchName, roster, options, id) ==
    IF id > Len(roster) THEN [thrown |-> FALSE, value |-> <<>>, cache |-> cache]
    ELSE IF ~PassesSkips(roster[id], options)
       THEN Collect(cache, searchName, roster, options, id + 1)
    ELSE The({IF m.outcome = "throws"
                 THEN [thrown |-> TRUE, value |-> <<>>, cache |-> m.cache]
              ELSE The({IF m.outcome = "true" /\ ~rest.thrown
                           THEN [rest EXCEPT !.value =
                                    <<MatchOf(searchName, roster, id)>> \o @]
                        ELSE rest :
                            rest \in {Collect(m.cache, searchName, roster,
                                              options, id + 1)}}) :
                 m \in {namesMatch(cache, searchName, fullNameOf(roster[id]))}})

\* Lines 163-205, called with the cache in a given state: whether the call
\* raised, the list it returned and the cache it leaves.
findPlayerMatches(cache, searchName, roster, options) ==
    The({[c EXCEPT !.value = SortMatches(@, OptionOr(options.preferActive, FALSE))] :
            c \in {Collect(cache, searchName, roster, options, 1)}})

\* What findBestMatch returns: null (line 256), a match (lines 260, 268,
\* 274, 280) or the best match with alternatives (lines 284-288).
NullMatch ==
    [found |-> FALSE, best |-> [playerId |-> 0], alternatives |-> <<>>,
     needsDisambiguation |-> FALSE]

UniqueMatch(m) ==
    [found |-> TRUE, best |-> m, alternatives |-> <<>>,
     needsDisambiguation |-> FALSE]

AmbiguousMatch(m, alternatives) ==
    [found |-> TRUE, best |-> m, alternatives |-> alternatives,
     needsDisambiguation |-> TRUE]

\* A variant whose alternatives start at the top-ranked candidate.
alternatives_fromTop(matches) == SubSeq(matches, 1, Min(2, Len(matches)))

\* Line 286: matches.slice(1, 3).
alternatives(matches) == SubSeq(matches, 2, Min(3, Len(matches)))

\* Lines 255-288, for the list of line 253. The difference 0.1 of line 267
\* is 10 hundredths.
bestOf(matches) ==
    LET activeMatches == SelectSeq(matches, LAMBDA m : m.status = "Active")
        teamMatches == SelectSeq(activeMatches, LAMBDA m : m.team # "")
    IN  IF Len(matches) = 0 THEN NullMatch
        ELSE IF Len(matches) = 1 THEN UniqueMatch(matches[1])
        ELSE IF matches[1].confidence > matches[2].confidence + 10
           THEN UniqueMatch(matches[1])
        ELSE IF Len(activeMatches) = 1 THEN UniqueMatch(activeMatches[1])
        ELSE IF Len(teamMatches) = 1 THEN UniqueMatch(teamMatches[1])
        ELSE AmbiguousMatch(matches[1], alternatives(matches))

\* Lines 252-289, called with the cache in a given state.
findBestMatch(cache, searchName, roster, options) ==
    The({[found EXCEPT !.value = IF found.thrown THEN NullMatch ELSE bestOf(@)] :
            found \in {findPlayerMatches(cache, searchName, roster, options)}})

\* A variant that leaves the name as it is.
Trim_none(str) == str

RECURSIVE Trim(_)
\* Line 310: name.trim() removes the white space at both ends.
Trim(str) ==
    IF str = <<>> THEN <<>>
    ELSE IF Head(str) = " " THEN Trim(Tail(str))
    ELSE IF str[Len(str)] = " " THEN Trim(SubSeq(str, 1, Len(str) - 1))
    ELSE str

\* Lines 301-306: the four lists, empty. The field raised tells that an
\* error left the loop instead of being recorded.
NoResults ==
    [matched |-> <<>>, unmatched |-> <<>>, ambiguous |-> <<>>,
     errors |-> <<>>, raised |-> FALSE]

\* A variant in which the error leaves the loop.
Caught_rethrown(results, index, name) == [results EXCEPT !.raised = TRUE]

\* Lines 335-341: the catch block records the error with the index and the
\* name as it was given.
Caught(results, index, name) ==
    [results EXCEPT !.errors = Append(@, [index |-> index, searchName |-> name])]

\* Lines 313-333: the list a result of findBestMatch goes to.
Placed(results, index, cleanName, found) ==
    IF ~found.found
       THEN [results EXCEPT !.unmatched =
                 Append(@, [index |-> index, searchName |-> cleanName])]
    ELSE IF found.needsDisambiguation
       THEN [results EXCEPT !.ambiguous =
                 Append(@, [index |-> index, searchName |-> cleanName,
                            match |-> found,
                            alternatives |-> found.alternatives])]
    ELSE [results EXCEPT !.matched =
              Append(@, [index |-> index, searchName |-> cleanName,
                         match |-> found])]

\* Lines 252-253 and 173 for a roster that may be missing: the roster is
\* [given |-> TRUE, val |-> roster] or NotGiven (null), and Object.entries
\* of null raises a TypeError.
findBestMatchIn(cache, searchName, roster, options) ==
    IF ~roster.given
       THEN [thrown |-> TRUE, value |-> NullMatch, cache |-> cache]
       ELSE findBestMatch(cache, searchName, roster.val, options)

RECURSIVE forEachName(_, _, _, _, _, _)
\* Lines 308-342: playerNames.forEach, from the name at position i (index
\* i - 1). A blank name is left out (line 311).
forEachName(cache, playerNames, roster, options, i, results) ==
    IF i > Len(playerNames) \/ results.raised
       THEN [value |-> results, cache |-> cache]
    ELSE IF Trim(playerNames[i]) = <<>>
       THEN forEachName(cache, playerNames, roster, options, i + 1, results)
    ELSE The({The({forEachName(r.cache, playerNames, roster, options, i + 1,
                               placed) :
                      placed \in {IF r.thrown
                                     THEN Caught(results, i - 1, playerNames[i])
                                  ELSE Placed(results, i - 1,
                                              Trim(playerNames[i]), r.value)}}) :
                 r \in {findBestMatchIn(cache, Trim(playerNames[i]), roster,
                                        options)}})

\* Lines 300-345.
processPlayerList(cache, playerNames, roster, options) ==
    forEachName(cache, playerNames, roster, options, 1, NoResults)

RECURSIVE SortedSeq(_)
\* Elements of a set of handles in document order (ascending handle).
SortedSeq(S) ==
    IF S = {} THEN <<>>
    ELSE LET m == CHOOSE x \in S : \A y \in S : x <= y
         IN  <<m>> \o SortedSeq(S \ {m})

\* findQueuedPlayers: one entry per attached remove button, in document
\* order; visibility is not consulted.
findQueuedPlayers == SortedSeq(attached)

NoAttempt == [entry |-> NoEntry, attachedAtStart |-> FALSE,
              visibleAtTrigger |-> FALSE, clicked |-> FALSE]


\* ------------------------------------------------- names and list rows
Rows == 1..MaxRows

NoRow == 0

AlBo == <<"A", "l", " ", "B", "o">>

JaCy == <<"J", "'", "a", " ", "C", ".", "y">>

\* Text a user left in the search box.
UserText == <<"q">>

\* A JavaScript value that is a string or undefined.
JsString(str) == [undef |-> FALSE, str |-> str]

JsUndefined == [undef |-> TRUE, str |-> <<>>]

\* bestMatch.full_name of an analysed item: a roster record carries
\* first_name and last_name (name-matching requires them) but need not
\* carry full_name.
BestMatches == {JsString(AlBo), JsString(JaCy), JsUndefined}

\* textContent of the container of row r's '.queue-action' element.
RowText(r) ==
    CASE r = 1 -> <<"A", "l", " ", "B", "o", "z", " ", "Q", "B">>
      [] r = 2 -> <<"A", "l", " ", "B", "o", " ", "Q", "B">>
      [] OTHER -> <<"J", "'", "a", " ", "C", ".", "y", " ", "Q", "B">>

\* Lines 1258-1286, for a string argument.
checkPlayerNameInText(name, text) ==
    LET normalizedText == lettersOnly(toLowerCase(text))
        normalizedPlayerName == lettersOnly(toLowerCase(name))
        nameParts == SelectSeq(split(normalizedPlayerName),
                               LAMBDA part : Len(part) > 1)
    IN  IF name = <<>> THEN FALSE
        ELSE IF includes(normalizedText, normalizedPlayerName) THEN TRUE
        ELSE /\ Len(nameParts) >= 2
             /\ includes(normalizedText, nameParts[1])
             /\ includes(normalizedText, Last(nameParts))

nameVariations_lowerFirst(name) ==
    << name,
       toLowerCase(name),
       removeApostrophes(name),
       split(name)[1],
       Last(split(name)),
       toUpperCase(name) >>

\* Lines 1360-1367.
nameVariations(name) ==
    << name,
       removeApostrophes(name),
       split(name)[1],
       Last(split(name)),
       toLowerCase(name),
       toUpperCase(name) >>

\* document.querySelectorAll('.queue-action') filtered by the container
\* test of lines 1208-1214 / 1403-1404: the rows in the document whose
\* container text matches, in document order.
MatchingRows(name) ==
    SelectSeq(SortedSeq({r \in Rows : rowState[r] # "absent"}),
              LAMBDA r : checkPlayerNameInText(name, RowText(r)))

NoObs == [driven |-> <<>>, checks |-> 0, clicks |-> <<>>, foundBy |-> "none",
          cleared |-> FALSE, yielded |-> FALSE, accepted |-> FALSE,
          atCallInput |-> <<>>, atCallHost |-> <<>>, directMatch |-> FALSE,
          raised |-> FALSE, clearRaised |-> FALSE]

\* ---------------------------------------------------------------- Init
InitPage ==
    /\ attached \in SUBSET Entries
    /\ visible \in SUBSET attached

InitClear ==
    /\ cq_pc = "idle"
    /\ queuedPlayers = <<>>
    /\ totalPlayers = 0
    /\ currentIndex = 0
    /\ queuedPlayer = NoEntry
    /\ removeResult = FALSE
    /\ successCount = 0
    /\ failureCount = 0
    /\ clearResults = <<>>
    /\ lastScan = <<>>
    /\ rescans = 0
    /\ phase = "none"
    /\ attempt = NoAttempt
    /\ iterations = 0
    /\ removeClicks = {}

\* The player list before any add run: no queue run has started.
InitList ==
    /\ rowState \in [Rows -> {"absent", "hidden", "shown"}]
    /\ inQueue = {}
    /\ hasInput \in BOOLEAN
    /\ hasHandler \in BOOLEAN
    /\ hasHandler => hasInput
    /\ inputValue \in (IF hasInput THEN {<<>>, UserText} ELSE {<<>>})
    /\ hostFilter = inputValue

InitQueueRun ==
    /\ lastAnalysis \in UNION {[1..n -> BestMatches] : n \in 0..MaxPlayers}
    /\ runList = <<>>
    /\ qp_pc = "idle"
    /\ qi = 0
    /\ queueResults = <<>>
    /\ qSuccess = 0
    /\ qFailure = 0
    /\ add_pc = "none"
    /\ playerName = <<>>
    /\ varIdx = 0
    /\ candidates = <<>>
    /\ elem = NoRow
    /\ addResult = FALSE
    /\ obs = NoObs

\* A page whose player list plays no part (clear runs only).
QuietList ==
    /\ rowState = [r \in Rows |-> "absent"]
    /\ inQueue = {}
    /\ hasInput = FALSE
    /\ hasHandler = FALSE
    /\ inputValue = <<>>
    /\ hostFilter = <<>>
    /\ lastAnalysis = <<>>
    /\ runList = <<>>
    /\ qp_pc = "idle"
    /\ qi = 0
    /\ queueResults = <<>>
    /\ qSuccess = 0
    /\ qFailure = 0
    /\ add_pc = "none"
    /\ playerName = <<>>
    /\ varIdx = 0
    /\ candidates = <<>>
    /\ elem = NoRow
    /\ addResult = FALSE
    /\ obs = NoObs

\* A page whose queue panel plays no part (add runs only).
QuietQueue ==
    /\ attached = {}
    /\ visible = {}

\* Nobody has asked for a batch to stop.
InitCaller == cancelRequested = FALSE

\* Lines 23 and 58-83: this.players = null; init has not loaded yet and
\* the panel shows nothing.
NoPanel == [analysis |-> "none", items |-> <<>>, validation |-> "none"]

InitRoster ==
    /\ players = "null"
    /\ ld_pc = "idle"
    /\ panel = NoPanel

\* No NameMatcher call is under examination.
NoCall == [fn |-> "none"]

\* The call has not returned.
NoResult == [returned |-> FALSE, value |-> <<>>]

Returned(v) == [returned |-> TRUE, value |-> v]

InitLib ==
    /\ lib_call = NoCall
    /\ lib_result = NoResult
    /\ regexCache = nameRegexes

\* ------------------------------------------------------------ SleeperAPI
Calls == 1..MaxCalls

\* Rosters the server can answer with.
Rosters == {"rosterA", "rosterB"}

\* this.lastFetch = null (line 21).
NoTime == 0

\* this.cache holds no 'nfl_players' entry.
NoCache == [present |-> FALSE, data |-> "none", timestamp |-> NoTime]

CacheEntry(data, timestamp) ==
    [present |-> TRUE, data |-> data, timestamp |-> timestamp]

IdleCall == [pc |-> "idle", force |-> FALSE, wake |-> NoTime,
             response |-> "none", result |-> "none", requested |-> FALSE,
             failed |-> FALSE, stale |-> FALSE]

\* Lines 18-24: a fresh instance; Date.now() is a positive number.
InitApi ==
    /\ apiCache = NoCache
    /\ lastFetch = NoTime
    /\ now = 1
    /\ call = [c \in Calls |-> IdleCall]

Init == InitPage /\ InitClear /\ QuietList /\ InitCaller /\ InitApi /\ InitRoster /\ InitLib

InitAdd ==
    QuietQueue /\ InitClear /\ InitList /\ InitQueueRun /\ InitCaller /\ InitApi /\ InitRoster /\ InitLib

\* ------------------------------------------------- the host page (queue)
\* The page re-renders on its own: a remove button is detached, a new one
\* is attached, or one changes visibility.
EnvDetach(e) ==
    /\ UNCHANGED <<addSide, cancelRequested, apiSide, rosterSide, libSide>>
    /\ e \in attached
    /\ attached' = attached \ {e}
    /\ visible' = visible \ {e}
    /\ UNCHANGED clearVars

EnvAttach(e) ==
    /\ UNCHANGED <<addSide, cancelRequested, apiSide, rosterSide, libSide>>
    /\ e \notin attached
    /\ attached' = attached \cup {e}
    /\ \E v \in BOOLEAN : visible' = IF v THEN visible \cup {e} ELSE visible
    /\ UNCHANGED clearVars

EnvToggleVisible(e) ==
    /\ UNCHANGED <<addSide, cancelRequested, apiSide, rosterSide, libSide>>
    /\ e \in attached
    /\ visible' = IF e \in visible THEN visible \ {e} ELSE visible \cup {e}
    /\ UNCHANGED <<attached>>
    /\ UNCHANGED clearVars

EnvQueue == \E e \in Entries : EnvDetach(e) \/ EnvAttach(e) \/ EnvToggleVisible(e)

\* --------------------------------------------------------- clearQueue()
\* Click on '#clear-queue' (or a direct call): a run starts and its locals
\* are fresh.
CQ_Start ==
    /\ UNCHANGED <<addSide, cancelRequested, apiSide, rosterSide, libSide>>
    /\ cq_pc \in {"idle", "done"}
    /\ cq_pc' = "scan"
    /\ queuedPlayers' = <<>>
    /\ totalPlayers' = 0
    /\ currentIndex' = 0
    /\ queuedPlayer' = NoEntry
    /\ removeResult' = FALSE
    /\ successCount' = 0
    /\ failureCount' = 0
    /\ clearResults' = <<>>
    /\ lastScan' = <<>>
    /\ rescans' = 0
    /\ phase' = "none"
    /\ attempt' = NoAttempt
    /\ iterations' = 0
    /\ removeClicks' = {}
    /\ UNCHANGED pageQueueVars

ScanIsEmpty_never(scan) == FALSE

\* Line 1018: queuedPlayers.length === 0.
ScanIsEmpty(scan) == Len(scan) = 0

\* Lines 1016-1029: the first scan; an empty scan returns at once.
CQ_InitialScan ==
    /\ UNCHANGED <<addSide, cancelRequested, apiSide, rosterSide, libSide>>
    /\ cq_pc = "scan"
    /\ queuedPlayers' = findQueuedPlayers
    /\ lastScan' = findQueuedPlayers
    /\ IF ScanIsEmpty(findQueuedPlayers)
          THEN /\ cq_pc' = "done"
               /\ UNCHANGED totalPlayers
          ELSE /\ cq_pc' = "loop"
               /\ totalPlayers' = Len(findQueuedPlayers)
    /\ UNCHANGED <<currentIndex, queuedPlayer, removeResult, successCount,
                   failureCount, clearResults, rescans, phase, attempt,
                   iterations, removeClicks>>
    /\ UNCHANGED pageQueueVars

\* Line 1036: const currentIndex = totalPlayers - queuedPlayers.length + 1.
CurrentIndexOf(total, scan) == total - Len(scan) + 1

\* Lines 1034-1046: the while test, the choice of the entry and the call
\* of removePlayerFromQueue.
CQ_LoopHead ==
    /\ UNCHANGED <<addSide, cancelRequested, apiSide, rosterSide, libSide>>
    /\ cq_pc = "loop"
    /\ IF Len(queuedPlayers) > 0
          THEN /\ queuedPlayer' = queuedPlayers[1]
               /\ currentIndex' = CurrentIndexOf(totalPlayers, queuedPlayers)
               /\ attempt' = [NoAttempt EXCEPT !.entry = queuedPlayers[1]]
               /\ iterations' = Min(iterations + 1, MaxOutcomes)
               /\ cq_pc' = "rm_attached"
          ELSE /\ cq_pc' = "display"
               /\ UNCHANGED <<queuedPlayer, currentIndex, attempt, iterations>>
    /\ UNCHANGED <<queuedPlayers, totalPlayers, removeResult, successCount,
                   failureCount, clearResults, lastScan, rescans, phase,
                   removeClicks>>
    /\ UNCHANGED pageQueueVars

\* Line 1828: document.contains(queuedPlayer.removeButton).
ButtonAttached(e) == e \in attached

\* Lines 1828-1835: a detached button returns false; an attached one is
\* scrolled into view and the 100 ms wait starts.  scrollIntoView and
\* click do not throw on an element, so the catch at line 1850 is not
\* entered.
RM_CheckAttached ==
    /\ UNCHANGED <<addSide, cancelRequested, apiSide, rosterSide, libSide>>
    /\ cq_pc = "rm_attached"
    /\ attempt' = [attempt EXCEPT !.attachedAtStart = (queuedPlayer \in attached)]
    /\ IF ~ButtonAttached(queuedPlayer)
          THEN /\ removeResult' = FALSE
               /\ cq_pc' = "record"
          ELSE /\ cq_pc' = "rm_visible"
               /\ UNCHANGED removeResult
    /\ UNCHANGED <<queuedPlayers, totalPlayers, currentIndex, queuedPlayer,
                   successCount, failureCount, clearResults, lastScan,
                   rescans, phase, iterations, removeClicks>>
    /\ UNCHANGED pageQueueVars

ButtonVisible_unchecked(e) == TRUE

\* Line 1838: queuedPlayer.removeButton.offsetParent is non-null.
ButtonVisible(e) == e \in visible

\* Lines 1838-1845: the offsetParent test and, with no suspension between
\* them, the click.  The page removes the clicked entry or ignores the
\* click.
RM_CheckVisibleAndClick ==
    /\ UNCHANGED <<addSide, cancelRequested, apiSide, rosterSide, libSide>>
    /\ cq_pc = "rm_visible"
    /\ IF ~ButtonVisible(queuedPlayer)
          THEN /\ removeResult' = FALSE
               /\ cq_pc' = "record"
               /\ UNCHANGED <<attempt, removeClicks, attached, visible>>
          ELSE /\ attempt' = [attempt EXCEPT
                                !.visibleAtTrigger = (queuedPlayer \in visible),
                                !.clicked = TRUE]
               /\ removeClicks' = removeClicks \cup {queuedPlayer}
               /\ cq_pc' = "rm_clicked"
               /\ UNCHANGED removeResult
               /\ \E removed \in BOOLEAN :
                    IF removed
                       THEN /\ attached' = attached \ {queuedPlayer}
                            /\ visible' = visible \ {queuedPlayer}
                       ELSE UNCHANGED <<attached, visible>>
    /\ UNCHANGED <<queuedPlayers, totalPlayers, currentIndex, queuedPlayer,
                   successCount, failureCount, clearResults, lastScan,
                   rescans, phase, iterations>>

\* Lines 1845-1848: the wait after the click, then return true.
RM_Return ==
    /\ UNCHANGED <<addSide, cancelRequested, apiSide, rosterSide, libSide>>
    /\ cq_pc = "rm_clicked"
    /\ removeResult' = TRUE
    /\ cq_pc' = "record"
    /\ UNCHANGED <<queuedPlayers, totalPlayers, currentIndex, queuedPlayer,
                   successCount, failureCount, clearResults, lastScan,
                   rescans, phase, attempt, iterations, removeClicks>>
    /\ UNCHANGED pageQueueVars

PushOutcome_dropFailed(results, ok) ==
    IF ok THEN Append(results, "success") ELSE results

\* Lines 1050-1054 and 1058-1062: clearResults.push({..., status, ...}).
PushOutcome(results, ok) ==
    Append(results, IF ok THEN "success" ELSE "failed")

\* Lines 1048-1064: one outcome is pushed and one counter incremented.
\* Outcomes past MaxOutcomes are not kept apart.
CQ_Record ==
    /\ UNCHANGED <<addSide, cancelRequested, apiSide, rosterSide, libSide>>
    /\ cq_pc = "record"
    /\ IF Len(clearResults) < MaxOutcomes
          THEN /\ clearResults' = PushOutcome(clearResults, removeResult)
               /\ IF removeResult
                     THEN /\ successCount' = successCount + 1
                          /\ UNCHANGED failureCount
                     ELSE /\ failureCount' = failureCount + 1
                          /\ UNCHANGED successCount
          ELSE UNCHANGED <<successCount, failureCount, clearResults>>
    /\ phase' = "attempted"
    /\ cq_pc' = "settle"
    /\ UNCHANGED <<queuedPlayers, totalPlayers, currentIndex, queuedPlayer,
                   removeResult, lastScan, rescans, attempt, iterations,
                   removeClicks>>
    /\ UNCHANGED pageQueueVars

\* Line 1076: await this.delay(this.settings?.delay || 150).
CQ_Settle ==
    /\ UNCHANGED <<addSide, cancelRequested, apiSide, rosterSide, libSide>>
    /\ cq_pc = "settle"
    /\ phase' = IF phase = "attempted" THEN "settled" ELSE "unordered"
    /\ cq_pc' = "rescan"
    /\ UNCHANGED <<queuedPlayers, totalPlayers, currentIndex, queuedPlayer,
                   removeResult, successCount, failureCount, clearResults,
                   lastScan, rescans, attempt, iterations, removeClicks>>
    /\ UNCHANGED pageQueueVars

Rescanned_stale == Tail(queuedPlayers)

\* Line 1079: queuedPlayers = await this.findQueuedPlayers().
Rescanned == findQueuedPlayers

\* Line 1083: if (currentIndex >= totalPlayers) break.
SafetyStop == currentIndex >= totalPlayers

\* Lines 1079-1086: the re-scan, then the safety check on currentIndex.
CQ_Rescan ==
    /\ UNCHANGED <<addSide, cancelRequested, apiSide, rosterSide, libSide>>
    /\ cq_pc = "rescan"
    /\ queuedPlayers' = Rescanned
    /\ lastScan' = findQueuedPlayers
    /\ rescans' = Min(rescans + 1, 2)
    /\ phase' = IF phase = "settled" THEN "scanned" ELSE "unordered"
    /\ cq_pc' = IF SafetyStop THEN "display" ELSE "loop"
    /\ UNCHANGED <<totalPlayers, currentIndex, queuedPlayer, removeResult,
                   successCount, failureCount, clearResults, attempt,
                   iterations, removeClicks>>
    /\ UNCHANGED pageQueueVars

\* Lines 1090-1096: displayClearResults.
CQ_Display ==
    /\ UNCHANGED <<addSide, cancelRequested, apiSide, rosterSide, libSide>>
    /\ cq_pc = "display"
    /\ cq_pc' = "done"
    /\ UNCHANGED <<queuedPlayers, totalPlayers, currentIndex, queuedPlayer,
                   removeResult, successCount, failureCount, clearResults,
                   lastScan, rescans, phase, attempt, iterations,
                   removeClicks>>
    /\ UNCHANGED pageQueueVars

ClearStep ==
    \/ CQ_InitialScan
    \/ CQ_LoopHead
    \/ RM_CheckAttached
    \/ RM_CheckVisibleAndClick
    \/ RM_Return
    \/ CQ_Record
    \/ CQ_Settle
    \/ CQ_Rescan
    \/ CQ_Display

NextClear == CQ_Start \/ ClearStep \/ EnvQueue

SpecClear == Init /\ [][NextClear]_vars

\* The event loop resumes a suspended clearQueue: every timer it waits on
\* fires and every promise it awaits settles.
FairSpecClear == SpecClear /\ WF_vars(ClearStep)

\* -------------------------------------------- the host page (player list)
\* The page re-renders its player list on its own while an add run is
\* suspended: a row is rendered, removed or changes visibility.
EnvRow(r, st) ==
    /\ qp_pc \in {"adding", "delay"}
    /\ rowState[r] # st
    /\ rowState' = [rowState EXCEPT ![r] = st]
    /\ UNCHANGED <<inQueue, hasInput, hasHandler, inputValue, hostFilter>>
    /\ UNCHANGED <<queueRunVars, addCallVars, clearSide, cancelRequested, apiSide, rosterSide, libSide>>

EnvList == \E r \in Rows : \E st \in {"absent", "hidden", "shown"} : EnvRow(r, st)

\* Effect of element.click() on row r's add element: the page queues the
\* row's player if the element is still in the document.
Clicked(r) == IF rowState[r] # "absent" THEN inQueue \cup {r} ELSE inQueue

ClickRecord(r) ==
    [row |-> r, input |-> inputValue, host |-> hostFilter,
     afterClear |-> obs.cleared]

\* ------------------------------------------------------- queuePlayers()
\* Lines 897-925: click on '#queue-players' (or a direct call).
QP_Start ==
    /\ qp_pc = "idle"
    /\ IF Len(lastAnalysis) = 0
          THEN qp_pc' = "done"
          ELSE qp_pc' = "item"
    /\ qi' = 0
    /\ queueResults' = <<>>
    /\ qSuccess' = 0
    /\ qFailure' = 0
    /\ runList' = lastAnalysis
    /\ UNCHANGED <<lastAnalysis, pageListVars, addCallVars, clearSide, cancelRequested, apiSide, rosterSide, libSide>>

\* Lines 968-970: the delay follows unless this was the last item.
AfterItem == IF qi < Len(lastAnalysis) - 1 THEN "delay" ELSE "display"

\* Lines 926-938 and 1158: the call addPlayerToQueue(player.full_name).
\* The template literal of line 1158 reads player.full_name before the
\* try block of line 1160: an undefined argument makes the call reject,
\* which the catch of line 957 records as 'error'.
QP_Item ==
    /\ qp_pc = "item"
    /\ LET full_name == lastAnalysis[qi + 1]
       IN  IF full_name.undef
              THEN /\ obs' = [NoObs EXCEPT !.raised = TRUE]
                   /\ qFailure' = qFailure + 1
                   /\ queueResults' = Append(queueResults, "error")
                   /\ qp_pc' = AfterItem
                   /\ UNCHANGED <<add_pc, playerName, qSuccess>>
              ELSE /\ obs' = [NoObs EXCEPT !.atCallInput = inputValue,
                                           !.atCallHost = hostFilter]
                   /\ add_pc' = "a_find"
                   /\ playerName' = full_name.str
                   /\ qp_pc' = "adding"
                   /\ UNCHANGED <<qFailure, qSuccess, queueResults>>
    /\ varIdx' = 0
    /\ candidates' = <<>>
    /\ elem' = NoRow
    /\ addResult' = FALSE
    /\ UNCHANGED <<lastAnalysis, runList, qi, pageListVars, clearSide, cancelRequested, apiSide, rosterSide, libSide>>

\* A variant that re-reads the queue before reporting success.
AddStatus_verified(success) ==
    IF success /\ elem \in inQueue THEN "success" ELSE "failed"

\* Lines 940-955: the status pushed for the value addPlayerToQueue returned.
AddStatus(success) == IF success THEN "success" ELSE "failed"

\* Lines 940-956: the value addPlayerToQueue returned is recorded.
QP_Record ==
    /\ qp_pc = "adding"
    /\ add_pc = "returned"
    /\ IF AddStatus(addResult) = "success"
          THEN /\ qSuccess' = qSuccess + 1
               /\ queueResults' = Append(queueResults, AddStatus(addResult))
               /\ UNCHANGED qFailure
          ELSE /\ qFailure' = qFailure + 1
               /\ queueResults' = Append(queueResults, AddStatus(addResult))
               /\ UNCHANGED qSuccess
    /\ qp_pc' = AfterItem
    /\ add_pc' = "none"
    /\ UNCHANGED <<lastAnalysis, runList, qi, playerName, varIdx, candidates, elem,
                   addResult, obs, pageListVars, clearSide, cancelRequested, apiSide, rosterSide, libSide>>

\* Lines 968-971 and 926: the delay, then i++ and the loop test against the
\* current this.lastAnalysis.
QP_Delay ==
    /\ qp_pc = "delay"
    /\ qi' = qi + 1
    /\ qp_pc' = IF qi + 1 < Len(lastAnalysis) THEN "item" ELSE "display"
    /\ UNCHANGED <<lastAnalysis, runList, queueResults, qSuccess, qFailure,
                   pageListVars, addCallVars, clearSide, cancelRequested, apiSide, rosterSide, libSide>>

\* Lines 974-980: displayQueueResults.
QP_Display ==
    /\ qp_pc = "display"
    /\ qp_pc' = "done"
    /\ UNCHANGED <<lastAnalysis, runList, qi, queueResults, qSuccess, qFailure,
                   pageListVars, addCallVars, clearSide, cancelRequested, apiSide, rosterSide, libSide>>

\* --------------------------------------------------- addPlayerToQueue()
DirectMatch_none(name) == <<>>

\* Lines 1203-1219: the elements whose container matches, as the for loop
\* meets them.
DirectMatch(name) == MatchingRows(name)

\* Lines 1163-1170, 1195-1248, 1296-1357: findQueueActionByPlayer.  A
\* match is scrolled into view and the 100 ms wait starts.  Without a
\* match (the partial-match pass of lines 1233-1243 reads the undefined
\* match.textContent and never returns) searchForPlayer looks for the
\* search input; without one it returns null and addPlayerToQueue false.
A_Find ==
    /\ add_pc = "a_find"
    /\ IF DirectMatch(playerName) # <<>>
          THEN /\ elem' = Head(DirectMatch(playerName))
               /\ obs' = [obs EXCEPT !.foundBy = "direct",
                                     !.directMatch = (MatchingRows(playerName) # <<>>)]
               /\ add_pc' = "a_click"
               /\ UNCHANGED <<varIdx, addResult>>
          ELSE /\ obs' = [obs EXCEPT !.directMatch = (MatchingRows(playerName) # <<>>)]
               /\ UNCHANGED elem
               /\ IF hasInput
                     THEN /\ varIdx' = 1
                          /\ add_pc' = "s_type"
                          /\ UNCHANGED addResult
                     ELSE /\ add_pc' = "returned"
                          /\ addResult' = FALSE
                          /\ UNCHANGED varIdx
    /\ UNCHANGED <<playerName, candidates, pageListVars, queueRunVars,
                   clearSide, cancelRequested, apiSide, rosterSide, libSide>>

\* Lines 1172-1174: queueActionButton.click(); return true.
A_Click ==
    /\ add_pc = "a_click"
    /\ obs' = [obs EXCEPT !.clicks = Append(obs.clicks, ClickRecord(elem))]
    /\ inQueue' = Clicked(elem)
    /\ addResult' = TRUE
    /\ add_pc' = "returned"
    /\ UNCHANGED <<rowState, hasInput, hasHandler, inputValue, hostFilter>>
    /\ UNCHANGED <<playerName, varIdx, candidates, elem, queueRunVars,
                   clearSide, cancelRequested, apiSide, rosterSide, libSide>>

\* ------------------------------------------------------ searchForPlayer()
\* Lines 1374-1383 and 1528-1579: the input is emptied and the variation
\* is handed to typeTextRealistically, which without a React onChange
\* does nothing; with one it assigns input.value and calls the handler,
\* which is page code and may throw (caught at line 1575).
S_Type ==
    /\ add_pc = "s_type"
    /\ LET nameVariation == nameVariations(playerName)[varIdx]
       IN  \E throws \in BOOLEAN :
             /\ hasHandler \/ ~throws
             /\ inputValue' = IF hasHandler THEN nameVariation ELSE <<>>
             /\ hostFilter' = IF hasHandler /\ ~throws
                                 THEN nameVariation ELSE hostFilter
             /\ obs' = [obs EXCEPT !.driven = Append(obs.driven, nameVariation),
                                   !.accepted = (hasHandler /\ ~throws)]
    /\ add_pc' = "s_check"
    /\ UNCHANGED <<rowState, inQueue, hasInput, hasHandler>>
    /\ UNCHANGED <<playerName, varIdx, candidates, elem, addResult,
                   queueRunVars, clearSide, cancelRequested, apiSide, rosterSide, libSide>>

\* Line 1440: nameVariation === nameVariations[1], a comparison of strings.
IsSecondVariation == 
    nameVariations(playerName)[varIdx] = nameVariations(playerName)[2]

\* A variant whose last variation returns without the final clear.
AfterMiss_unreset ==
    IF IsSecondVariation THEN "s_alt"
    ELSE IF varIdx < 6 THEN "s_type" ELSE "returned"

\* Lines 1437-1442 and 1369: after a variation that found nothing.
AfterMiss ==
    IF IsSecondVariation THEN "s_alt"
    ELSE IF varIdx < 6 THEN "s_type" ELSE "s_finalclear"

\* Lines 1402-1415 for the elements in todo: the first one is taken if it
\* is visible; if not, the 100 ms wait starts; with none left the
\* variation has missed.
Examine(todo) ==
    IF todo = <<>>
       THEN /\ add_pc' = AfterMiss
            /\ varIdx' = IF AfterMiss = "s_type" THEN varIdx + 1 ELSE varIdx
            /\ candidates' = <<>>
            /\ UNCHANGED elem
            /\ obs' = [obs EXCEPT !.checks = IF add_pc = "s_check"
                                              THEN obs.checks + 1 ELSE obs.checks]
       ELSE IF rowState[Head(todo)] = "shown"
          THEN /\ add_pc' = "s_click"
               /\ elem' = Head(todo)
               /\ candidates' = <<>>
               /\ UNCHANGED varIdx
               /\ obs' = [obs EXCEPT !.yielded = TRUE,
                                     !.checks = IF add_pc = "s_check"
                                                THEN obs.checks + 1 ELSE obs.checks]
          ELSE /\ add_pc' = "s_recheck"
               /\ candidates' = todo
               /\ UNCHANGED <<varIdx, elem>>
               /\ obs' = [obs EXCEPT !.checks = IF add_pc = "s_check"
                                              THEN obs.checks + 1 ELSE obs.checks]

\* Lines 1386-1420: the query after the settle delay.
S_Check ==
    /\ add_pc = "s_check"
    /\ Examine(MatchingRows(playerName))
    /\ UNCHANGED <<playerName, addResult, pageListVars, queueRunVars,
                   clearSide, cancelRequested, apiSide, rosterSide, libSide>>

\* Lines 1410-1414: after the extra wait the element is taken if it has
\* become visible; otherwise the for loop continues with the next element
\* of the same NodeList.
S_Recheck ==
    /\ add_pc = "s_recheck"
    /\ IF rowState[Head(candidates)] = "shown"
          THEN Examine(candidates)
          ELSE Examine(Tail(candidates))
    /\ UNCHANGED <<playerName, addResult, pageListVars, queueRunVars,
                   clearSide, cancelRequested, apiSide, rosterSide, libSide>>

\* Lines 1423-1427: the click while the search is still in place.
S_Click ==
    /\ add_pc = "s_click"
    /\ obs' = [obs EXCEPT !.clicks = Append(obs.clicks, ClickRecord(elem))]
    /\ inQueue' = Clicked(elem)
    /\ add_pc' = "s_clear"
    /\ UNCHANGED <<rowState, hasInput, hasHandler, inputValue, hostFilter>>
    /\ UNCHANGED <<playerName, varIdx, candidates, elem, addResult,
                   queueRunVars, clearSide, cancelRequested, apiSide, rosterSide, libSide>>

\* Lines 1589-1632: clearSearchInput.  With a React onChange the input is
\* emptied and the handler called (page code, may throw, caught at line
\* 1629); without one nothing is done.
ClearSearchInput(throws) ==
    /\ hasHandler \/ ~throws
    /\ inputValue' = IF hasHandler THEN <<>> ELSE inputValue
    /\ hostFilter' = IF hasHandler /\ ~throws THEN <<>> ELSE hostFilter
    /\ UNCHANGED <<rowState, inQueue, hasInput, hasHandler>>

\* Lines 1431-1433 and 1165-1170: the search is cleared, the element is
\* returned up to addPlayerToQueue, which scrolls it into view and waits.
S_Clear ==
    /\ add_pc = "s_clear"
    /\ \E throws \in BOOLEAN :
         /\ ClearSearchInput(throws)
         /\ obs' = [obs EXCEPT !.cleared = TRUE, !.foundBy = "variation",
                               !.clearRaised = throws]
    /\ add_pc' = "a_click"
    /\ UNCHANGED <<playerName, varIdx, candidates, elem, addResult,
                   queueRunVars, clearSide, cancelRequested, apiSide, rosterSide, libSide>>

\* Lines 1442-1445, 1474-1517: tryAlternativeSearchTriggers dispatches a
\* fixed list of events and waits 200 + 300 + 300 + 500 ms, then 100 ms.
S_Alt ==
    /\ add_pc = "s_alt"
    /\ add_pc' = "s_altcheck"
    /\ UNCHANGED <<playerName, varIdx, candidates, elem, addResult, obs,
                   pageListVars, queueRunVars, clearSide, cancelRequested, apiSide, rosterSide, libSide>>

\* A variant that repeats the alternative triggers.
AfterAlt_again == "s_alt"

\* Lines 1457-1461 and 1369: after alternative triggers that found nothing
\* the for loop goes on to the next variation, or ends after the sixth.
AfterAlt == IF varIdx < 6 THEN "s_type" ELSE "s_finalclear"

\* Lines 1446-1457: the query after the alternative triggers; a match is
\* returned after the search is cleared, without a click here.
S_AltCheck ==
    /\ add_pc = "s_altcheck"
    /\ IF MatchingRows(playerName) # <<>>
          THEN /\ elem' = Head(MatchingRows(playerName))
               /\ \E throws \in BOOLEAN :
                    /\ ClearSearchInput(throws)
                    /\ obs' = [obs EXCEPT !.cleared = TRUE,
                                          !.foundBy = "alternate",
                                          !.clearRaised = throws]
               /\ add_pc' = "a_click"
               /\ UNCHANGED varIdx
          ELSE /\ add_pc' = AfterAlt
               /\ varIdx' = IF varIdx < 6 THEN varIdx + 1 ELSE varIdx
               /\ UNCHANGED <<elem, obs, pageListVars>>
    /\ UNCHANGED <<playerName, candidates, addResult, queueRunVars, clearSide, cancelRequested, apiSide, rosterSide, libSide>>

\* Lines 1463-1471 and 1177-1179: the search is cleared, null is returned
\* and addPlayerToQueue returns false.
S_FinalClear ==
    /\ add_pc = "s_finalclear"
    /\ \E throws \in BOOLEAN :
         /\ ClearSearchInput(throws)
         /\ obs' = [obs EXCEPT !.cleared = TRUE, !.clearRaised = throws]
    /\ addResult' = FALSE
    /\ add_pc' = "returned"
    /\ UNCHANGED <<playerName, varIdx, candidates, elem, queueRunVars,
                   clearSide, cancelRequested, apiSide, rosterSide, libSide>>

AddStep ==
    \/ QP_Item
    \/ QP_Record
    \/ QP_Delay
    \/ QP_Display
    \/ A_Find
    \/ A_Click
    \/ S_Type
    \/ S_Check
    \/ S_Recheck
    \/ S_Click
    \/ S_Clear
    \/ S_Alt
    \/ S_AltCheck
    \/ S_FinalClear

NextAdd == QP_Start \/ AddStep \/ EnvList

SpecAdd == InitAdd /\ [][NextAdd]_vars

\* The player list and search input as a call of addPlayerToQueue may find
\* them, earlier calls included: the filter the page applies need not be
\* the text of the input (an onChange that threw leaves them apart).
InitCallPage ==
    /\ rowState \in [Rows -> {"absent", "hidden", "shown"}]
    /\ inQueue = {}
    /\ hasInput \in BOOLEAN
    /\ hasHandler \in BOOLEAN
    /\ hasHandler => hasInput
    /\ inputValue \in (IF hasInput THEN {<<>>, UserText} ELSE {<<>>})
    /\ hostFilter \in (IF hasInput THEN {<<>>, UserText} ELSE {<<>>})

\* One call of addPlayerToQueue: a batch of a single analysed player.
InitAddCall ==
    /\ QuietQueue
    /\ InitClear
    /\ InitCaller
    /\ InitApi
    /\ InitRoster
    /\ InitLib
    /\ InitCallPage
    /\ InitQueueRun
    /\ Len(lastAnalysis) = 1

AddCallStep ==
    \/ QP_Item
    \/ QP_Record
    \/ QP_Display
    \/ A_Find
    \/ A_Click
    \/ S_Type
    \/ S_Check
    \/ S_Recheck
    \/ S_Click
    \/ S_Clear
    \/ S_Alt
    \/ S_AltCheck
    \/ S_FinalClear

NextAddCall == QP_Start \/ AddCallStep \/ EnvList

SpecAddCall == InitAddCall /\ [][NextAddCall]_vars

\* Timers fire and awaited promises settle: a call that can take its next
\* step eventually takes it.
FairSpecAddCall == SpecAddCall /\ WF_vars(AddCallStep)

\* ------------------------------------------- both buttons of the panel
\* Lines 302-317: '#queue-players' and '#clear-queue' each start their
\* operation; setButtonLoading (lines 909, 1005) disables only the button
\* that was clicked, so the other operation can be started while the first
\* is suspended.  Here the page has no search input and does not re-render
\* by itself, which leaves the direct path of addPlayerToQueue.
InitUI ==
    /\ InitPage
    /\ InitClear
    /\ InitCaller
    /\ InitApi
    /\ InitRoster
    /\ InitLib
    /\ InitList
    /\ ~hasInput
    /\ InitQueueRun

AddDirectStep ==
    \/ QP_Item
    \/ QP_Record
    \/ QP_Delay
    \/ QP_Display
    \/ A_Find
    \/ A_Click

\* A click is handled between tasks: a running queuePlayers is then at one
\* of its timers (the 100 ms wait of line 1170, the delay of line 969), a
\* running clearQueue at one of its (lines 1835, 1845, 1076).
QueueAtTimer ==
    \/ qp_pc \in {"idle", "delay", "done"}
    \/ qp_pc = "adding" /\ add_pc = "a_click"

ClearAtTimer == cq_pc \in {"idle", "rm_visible", "rm_clicked", "rescan", "done"}

\* Line 313: click on '#queue-players'.
ClickQueue == ClearAtTimer /\ QP_Start

\* Line 317: click on '#clear-queue'.
ClickClear == QueueAtTimer /\ CQ_Start

NextUI == ClickQueue \/ AddDirectStep \/ ClickClear \/ ClearStep

SpecUI == InitUI /\ [][NextUI]_vars

\* ------------------------------------- analysing again during a queue run
\* Lines 305, 555-627 and 668: a click on '#analyze-players' ends in
\* displayAnalysisResults, which assigns a new array to this.lastAnalysis.
\* The assignment is made between tasks, with a running queuePlayers at one
\* of its timers.
AN_Display ==
    /\ QueueAtTimer
    /\ \E list \in UNION {[1..n -> BestMatches] : n \in 0..MaxPlayers} :
         /\ list # lastAnalysis
         /\ lastAnalysis' = list
    /\ UNCHANGED <<runList, qp_pc, qi, queueResults, qSuccess, qFailure>>
    /\ UNCHANGED <<pageListVars, addCallVars, clearSide, cancelRequested, apiSide, rosterSide, libSide>>

InitReanalyse ==
    /\ QuietQueue
    /\ InitClear
    /\ InitCaller
    /\ InitApi
    /\ InitRoster
    /\ InitLib
    /\ InitList
    /\ ~hasInput
    /\ InitQueueRun

NextReanalyse == QP_Start \/ AddDirectStep \/ AN_Display

SpecReanalyse == InitReanalyse /\ [][NextReanalyse]_vars

\* ------------------------------------------ the caller asks for a stop
\* Lines 313, 317 and 897, 998: the operations are started without
\* arguments and expose nothing a caller could set while they run, so a
\* caller's wish to stop is a fact of the environment only.  It arises
\* between tasks, like any event.
CallerCancels ==
    /\ ~cancelRequested
    /\ qp_pc \notin {"idle", "done"}
    /\ QueueAtTimer
    /\ cancelRequested' = TRUE
    /\ UNCHANGED <<addSide, clearSide, apiSide, rosterSide, libSide>>

NextCancel == QP_Start \/ AddDirectStep \/ CallerCancels

SpecCancel == InitReanalyse /\ [][NextCancel]_vars

\* ======================================================== sleeper-api.js
\* A variant that never expires an entry.
isCacheValid_always == apiCache.present

\* Lines 130-136: isCacheValid('nfl_players').
isCacheValid ==
    /\ apiCache.present
    /\ now - apiCache.timestamp < cacheExpiry

\* Line 105: the test that makes makeRequest wait.
TooSoon == lastFetch # NoTime /\ now - lastFetch < rateLimitDelay

\* Lines 34-46 and 103-114: getPlayers(force) up to its first suspension.
\* A valid entry is returned unless force is set; otherwise makeRequest
\* either starts a timer for the rest of the rate-limit delay or records
\* lastFetch and starts the request.
API_CallWith(c, force) ==
    /\ call[c].pc \in {"idle", "done"}
    /\   IF ~force /\ isCacheValid
            THEN /\ call' = [call EXCEPT ![c] =
                        [IdleCall EXCEPT !.pc = "done", !.force = force,
                                         !.result = apiCache.data]]
                 /\ UNCHANGED lastFetch
            ELSE IF TooSoon
               THEN /\ call' = [call EXCEPT ![c] =
                           [IdleCall EXCEPT !.pc = "waiting", !.force = force,
                              !.wake = now + (rateLimitDelay - (now - lastFetch))]]
                    /\ UNCHANGED lastFetch
               ELSE /\ call' = [call EXCEPT ![c] =
                           [IdleCall EXCEPT !.pc = "fetching", !.force = force,
                                            !.requested = TRUE]]
                    /\ lastFetch' = now
    /\ UNCHANGED <<apiCache, now, uiSide>>

API_Call(c) ==
    /\ \E force \in BOOLEAN : API_CallWith(c, force)
    /\ UNCHANGED <<rosterSide, libSide>>

\* Lines 106-114: the timer fires (never early); lastFetch is recorded and
\* the request starts.
API_Wake(c) ==
    /\ call[c].pc = "waiting"
    /\ now >= call[c].wake
    /\ lastFetch' = now
    /\ call' = [call EXCEPT ![c].pc = "fetching", ![c].requested = TRUE]
    /\ UNCHANGED <<apiCache, now, uiSide, rosterSide, libSide>>

\* A variant that falls back only on an unexpired entry.
Fallback_fresh == IF isCacheValid THEN apiCache.data ELSE "raised"

\* Lines 84-90: the catch of getPlayers.
Fallback == IF apiCache.present THEN apiCache.data ELSE "raised"

\* Lines 114-120, 46-52 and 80-91: the request settles.  A response that
\* is ok and parses is stored with the current time; a rejected fetch, a
\* status that is not ok or a body that does not parse throws into the
\* catch of line 80.
API_Respond(c) ==
    /\ call[c].pc = "fetching"
    /\ \/ \E data \in Rosters :
            /\ apiCache' = CacheEntry(data, now)
            /\ call' = [call EXCEPT ![c].pc = "saving", ![c].response = data]
       \/ /\ call' = [call EXCEPT ![c].pc = "done", ![c].failed = TRUE,
                                   ![c].stale = apiCache.present /\ ~isCacheValid,
                                   ![c].result = Fallback]
          /\ UNCHANGED apiCache
    /\ UNCHANGED <<lastFetch, now, uiSide, rosterSide, libSide>>

\* Lines 55-78: the metadata is written to storage; a failure of the write
\* is caught at line 72; the response is returned.
API_Saved(c) ==
    /\ call[c].pc = "saving"
    /\ call' = [call EXCEPT ![c].pc = "done", ![c].result = call[c].response]
    /\ UNCHANGED <<apiCache, lastFetch, now, uiSide, rosterSide, libSide>>

\* Time passes.
Tick ==
    /\ now < MaxTime
    /\ now' = now + 1
    /\ UNCHANGED <<apiCache, lastFetch, call, uiSide, rosterSide, libSide>>

ApiStep == \E c \in Calls : API_Call(c) \/ API_Wake(c) \/ API_Respond(c) \/ API_Saved(c)

NextApi == ApiStep \/ Tick

\* The panel is idle; only the API instance is at work.
InitApiOnly ==
    /\ QuietQueue
    /\ InitClear
    /\ QuietList
    /\ InitCaller
    /\ InitApi
    /\ InitRoster
    /\ InitLib

SpecApi == InitApiOnly /\ [][NextApi]_vars

\* ------------------------------------------------- the helper's roster
\* The loadPlayers activation of init awaits the first getPlayers call.
LoadCall == 1

\* Lines 143-149 with sleeper-api.js lines 147-153: getAllPlayers() calls
\* getPlayers(false) on the shared instance.
LoadPlayers_Start ==
    /\ ld_pc = "idle"
    /\ API_CallWith(LoadCall, FALSE)
    /\ ld_pc' = "loading"
    /\ UNCHANGED <<players, panel, libSide>>

\* Lines 149-154: the awaited call settles. A roster is stored in
\* this.players; a raised failure is caught at line 151 and only logged, so
\* this.players keeps its initial null and init goes on to inject the panel.
LoadPlayers_Finish ==
    /\ ld_pc = "loading"
    /\ call[LoadCall].pc = "done"
    /\ players' = IF call[LoadCall].result = "raised" THEN "null"
                  ELSE call[LoadCall].result
    /\ ld_pc' = "done"
    /\ UNCHANGED <<panel, apiSide, uiSide, libSide>>

\* One entry of analyzePlayers' analysis array (lines 597-609).
AnalysisItem(found, error, full_name) ==
    [found |-> found, error |-> error, full_name |-> full_name]

\* Lines 595-610 for one name: findPlayerMatches(name, this.players, ...)
\* raises at Object.entries(players) (name-matching, line 173) when the
\* roster is null, and the catch at line 603 records an unmatched entry that
\* carries the message; with a roster it returns the matches, of which the
\* first, if any, is the best match.
MatchOutcomes(roster) ==
    IF roster = "null"
       THEN {AnalysisItem(FALSE, TRUE, JsUndefined)}
       ELSE {AnalysisItem(TRUE, FALSE, m) : m \in BestMatches}
            \cup {AnalysisItem(FALSE, FALSE, JsUndefined)}

\* The names typed into '#player-input': one to MaxPlayers non-empty lines.
AnalysesOf(roster) ==
    UNION {[1..n -> MatchOutcomes(roster)] : n \in 1..MaxPlayers}

\* The entries with a best match, in order (line 668).
RECURSIVE Matched(_)
Matched(analysis) ==
    IF analysis = <<>> THEN <<>>
    ELSE IF Head(analysis).found
       THEN <<Head(analysis).full_name>> \o Matched(Tail(analysis))
       ELSE Matched(Tail(analysis))

\* Lines 555-627 and 636-674: the 'Analyze Players' click, on the injected
\* panel (init has awaited loadPlayers). No statement outside the inner
\* try raises, so the run reaches lines 612-613: the results get the class
\* 'success' and one line per name, "No match found" for the entries without
\* a best match; this.lastAnalysis keeps the matched ones.
AnalyzePlayers ==
    /\ ld_pc = "done"
    /\ \E analysis \in AnalysesOf(players) :
         /\ panel' = [analysis |-> "success", items |-> analysis,
                      validation |-> "none"]
         /\ lastAnalysis' = Matched(analysis)
    /\ UNCHANGED <<players, ld_pc>>
    /\ UNCHANGED <<runList, qp_pc, qi, queueResults, qSuccess, qFailure>>
    /\ UNCHANGED <<pageListVars, addCallVars, clearSide, cancelRequested, apiSide,
                   libSide>>

\* Lines 683-721: the 'Validate Queue' click. The matching at line 706 is
\* inside the outer try only: a raise there, or in findQueuedPlayers at line
\* 700, reaches the catch at line 716, which shows "Validation failed".
ValidateQueue ==
    /\ ld_pc = "done"
    /\ \E scanRaises \in BOOLEAN :
         panel' = [analysis |-> "none", items |-> <<>>,
                   validation |-> IF scanRaises \/ players = "null"
                                     THEN "failed" ELSE "shown"]
    /\ UNCHANGED <<players, ld_pc, apiSide, uiSide, libSide>>

NextRoster ==
    \/ LoadPlayers_Start
    \/ API_Respond(LoadCall)
    \/ API_Saved(LoadCall)
    \/ LoadPlayers_Finish
    \/ AnalyzePlayers
    \/ ValidateQueue
    \/ Tick

SpecRoster == InitApiOnly /\ [][NextRoster]_vars

\* ---------------------------------------------------- extractPlayerName()
RECURSIVE collapseSpaces(_)
\* Line 1782: .replace(/\s+/g, ' '): a run of white space becomes one space.
collapseSpaces(str) ==
    IF Len(str) < 2 THEN str
    ELSE IF str[1] = " " /\ str[2] = " " THEN collapseSpaces(Tail(str))
    ELSE <<Head(str)>> \o collapseSpaces(Tail(str))

RECURSIVE removeLabel(_)
\* Line 1783: .replace(/REMOVE/gi, ''): every occurrence, from left to
\* right, in any letter case; what the removals bring together is not
\* examined again.
removeLabel(str) ==
    IF str = <<>> THEN <<>>
    ELSE IF Len(str) >= 6
            /\ Lower(SubSeq(str, 1, 6)) = <<"r", "e", "m", "o", "v", "e">>
       THEN removeLabel(SubSeq(str, 7, Len(str)))
    ELSE <<Head(str)>> \o removeLabel(Tail(str))

RECURSIVE trimEnd(_)
\* Line 1784: .replace(/\s*$/, '').
trimEnd(str) ==
    IF str # <<>> /\ str[Len(str)] = " "
       THEN trimEnd(SubSeq(str, 1, Len(str) - 1))
       ELSE str

\* Lines 1781-1784.
cleanText(text) == trimEnd(removeLabel(collapseSpaces(Trim(text))))

\* Line 1787: .split(/\s+/).filter(word => word.length > 0): the pieces
\* between white space that are not empty.
wordsOf(str) == SelectSeq(split(str), LAMBDA word : word # <<>>)

Digits == {"0", "1", "2", "3", "4", "5", "6", "7", "8", "9"}

\* Line 1795: /^(QB|RB|WR|TE|K|DEF|DST|\d+)$/i.test(word).
looksLikePositionOrNumber(word) ==
    \/ Lower(word) \in {<<"q", "b">>, <<"r", "b">>, <<"w", "r">>, <<"t", "e">>,
                        <<"k">>, <<"d", "e", "f">>, <<"d", "s", "t">>}
    \/ word # <<>> /\ \A i \in 1..Len(word) : word[i] \in Digits

\* A variant that looks at every word.
wordsExamined_all(words) == Len(words)

\* Line 1792: i < Math.min(3, words.length).
wordsExamined(words) == Min(3, Len(words))

RECURSIVE nameWordsFrom(_, _, _)
\* Lines 1792-1801: the loop from word i with the name words found so far;
\* it stops at two name words.
nameWordsFrom(words, i, nameWords) ==
    IF i > wordsExamined(words) \/ Len(nameWords) >= 2 THEN nameWords
    ELSE nameWordsFrom(words, i + 1,
            IF looksLikePositionOrNumber(words[i]) THEN nameWords
            ELSE Append(nameWords, words[i]))

\* Lines 1780-1812: the name, or null (NotGiven).
extractPlayerName(text) ==
    LET words == wordsOf(cleanText(text))
        nameWords == IF Len(words) >= 2 THEN nameWordsFrom(words, 1, <<>>)
                     ELSE <<>>
    IN  IF Len(nameWords) >= 2
           THEN Given(nameWords[1] \o <<" ">> \o nameWords[2])
        ELSE IF Len(words) >= 2
           THEN Given(words[1] \o <<" ">> \o words[2])
        ELSE NotGiven

\* Calls of extractPlayerName: the text is made of up to MaxPieces pieces:
\* words followed by a space, a position in either letter case, a number,
\* the label, a space, and a digit that runs into what follows it.
TextPieces ==
    {<<"A", "l", " ">>, <<"B", "o", " ">>, <<"Q", "B", " ">>,
     <<"1", "2", " ">>, <<"R", "E", "M", "O", "V", "E">>, <<" ">>,
     <<"k", " ">>, <<"1">>}

RECURSIVE Flatten(_)
Flatten(seqs) == IF seqs = <<>> THEN <<>> ELSE Head(seqs) \o Flatten(Tail(seqs))

InitExtract ==
    /\ QuietQueue
    /\ InitClear
    /\ QuietList
    /\ InitCaller
    /\ InitApi
    /\ InitRoster
    /\ \E n \in 0..MaxPieces : \E pieces \in [1..n -> TextPieces] :
          lib_call = [fn |-> "extractPlayerName", text |-> Flatten(pieces)]
    /\ lib_result = NoResult
    /\ regexCache = nameRegexes

\* extractPlayerName(text) returns.
ExtractPlayerName ==
    /\ lib_call.fn = "extractPlayerName"
    /\ ~lib_result.returned
    /\ lib_result' = Returned(extractPlayerName(lib_call.text))
    /\ UNCHANGED <<lib_call, regexCache, uiSide, apiSide, rosterSide>>

NextExtract == ExtractPlayerName

SpecExtract == InitExtract /\ [][NextExtract]_vars

\* ------------------------------------------------ compareInputWithQueue()
\* Line 778: name.toLowerCase().replace(/[^a-z\s]/g, '').trim().
normalize(name) ==
    Trim(SelectSeq(toLowerCase(name),
                   LAMBDA c : c \in LowerLetters \/ c = " "))

\* Lines 776-820: namesMatch of the helper (content-sleeper.js), which is
\* not NameMatcher.namesMatch.
helperNamesMatch(name1, name2) ==
    LET n1 == normalize(name1)
        n2 == normalize(name2)
        words1 == wordsOf(n1)
        words2 == wordsOf(n2)
        firstMatch == words1[1] = words2[1]
        lastMatch == words1[Len(words1)] = words2[Len(words2)]
        allWords1 == Flatten([i \in 1..Len(words1) |->
                        IF i = 1 THEN words1[i] ELSE <<" ">> \o words1[i]])
        allWords2 == Flatten([i \in 1..Len(words2) |->
                        IF i = 1 THEN words2[i] ELSE <<" ">> \o words2[i]])
    IN  IF n1 = n2 THEN TRUE
        ELSE IF Len(words1) = 1 \/ Len(words2) = 1
           THEN includes(n1, n2) \/ includes(n2, n1)
        ELSE IF Len(words1) >= 2 /\ Len(words2) >= 2 /\ firstMatch /\ lastMatch
           THEN TRUE
        ELSE IF /\ Len(words1) >= 2 /\ Len(words2) >= 2 /\ firstMatch
                /\ \E i \in 2..Len(words1), j \in 2..Len(words2) :
                       words1[i] = words2[j]
           THEN TRUE
        ELSE includes(allWords1, allWords2) \/ includes(allWords2, allWords1)

\* An analysed input (lines 706-711): the line typed, here its number, and
\* the best match or null; of the best match the comparison reads full_name.
NoBestMatch == [found |-> FALSE, full_name |-> JsUndefined]

BestMatch(full_name) == [found |-> TRUE, full_name |-> full_name]

NoValidation ==
    [raised |-> FALSE, inQueue |-> <<>>, notInQueue |-> <<>>,
     invalidInputs |-> <<>>]

\* Line 746: queueNames.some(queueName => this.namesMatch(playerName,
\* queueName)), the queue names in lower case (line 733).
isQueued(name, queueNames) ==
    \E k \in DOMAIN queueNames :
        helperNamesMatch(name, toLowerCase(queueNames[k]))

RECURSIVE compareFrom(_, _, _, _)
\* Lines 739-763: the loop from item i. Line 745 calls toLowerCase on
\* item.bestMatch.full_name, which raises a TypeError when the best match
\* has no full_name.
compareFrom(inputAnalysis, queueNames, i, validation) ==
    IF i > Len(inputAnalysis) \/ validation.raised THEN validation
    ELSE LET item == inputAnalysis[i]
         IN  compareFrom(inputAnalysis, queueNames, i + 1,
                IF ~item.bestMatch.found
                   THEN [validation EXCEPT !.invalidInputs = Append(@, item.input)]
                ELSE IF item.bestMatch.full_name.undef
                   THEN [validation EXCEPT !.raised = TRUE]
                ELSE IF isQueued(toLowerCase(item.bestMatch.full_name.str),
                                 queueNames)
                   THEN [validation EXCEPT !.inQueue = Append(@, item)]
                ELSE [validation EXCEPT !.notInQueue = Append(@, item)])

\* Lines 732-766.
compareInputWithQueue(inputAnalysis, queueNames) ==
    compareFrom(inputAnalysis, queueNames, 1, NoValidation)

\* ------------------------------------------- findQueuedPlayers(), in detail
\* A '.delete-button' element of the page: its trimmed text in lower case is
\* 'remove' or not (line 1734), closest(...) finds a container or null (line
\* 1736), and the text read for the name (line 1739).
RECURSIVE scanFrom(_, _, _)
\* Lines 1730-1766: the loop from button i. Without a container line 1753
\* calls this.getNearbyText, which the class does not define: the call
\* raises a TypeError.
scanFrom(buttons, i, scan) ==
    IF i > Len(buttons) \/ scan.raised THEN scan
    ELSE LET b == buttons[i]
             name == extractPlayerName(b.text)
         IN  scanFrom(buttons, i + 1,
                IF ~b.isRemove THEN scan
                ELSE IF ~b.hasContainer THEN [scan EXCEPT !.raised = TRUE]
                ELSE IF name.given /\ name.val # <<>>
                   THEN [scan EXCEPT !.queuedPlayers =
                            Append(@, [name |-> name.val, removeButton |-> i])]
                ELSE scan)

\* Lines 1722-1770 for the buttons of the page, in document order.
findQueuedPlayersOn(buttons) ==
    scanFrom(buttons, 1, [raised |-> FALSE, queuedPlayers |-> <<>>])

\* ------------------------------------------------- NameMatcher calls
\* Sample names: two first names of which one is an abbreviation handled by
\* firstNamePatterns, and a search name with an accented letter.
Al == <<"A", "l">>

Alex == <<"A", "l", "e", "x">>

Bo == <<"B", "o">>

SearchNames ==
    {AlBo,
     <<"a", "l", "e", "x", "a", "n", "d", "e", "r", " ", "b", "o">>,
     <<"U+00C1", "l">>}

\* Roster records as /players/nfl delivers them; a missing first or last
\* name is the empty string.
SampleNames ==
    {[first |-> Al, last |-> Bo], [first |-> Alex, last |-> Bo],
     [first |-> <<>>, last |-> Bo], [first |-> Al, last |-> <<>>]}

SamplePlayers ==
    {[first_name |-> n.first, last_name |-> n.last, status |-> st,
      position |-> pos, team |-> "BUF"] :
        n \in SampleNames, st \in {"Active", "Inactive"}, pos \in {"QB", "LB"}}

SampleRosters == UNION {[1..n -> SamplePlayers] : n \in 0..MaxRoster}

\* The options a caller can pass (line 163).
SampleOptions ==
    [requireActive : {NotGiven, Given(TRUE), Given(FALSE)},
     preferActive : {NotGiven, Given(TRUE)},
     preferredPositions : {NotGiven, Given({"QB"})},
     requirePosition : {NotGiven, Given(TRUE)}]

InitMatcher ==
    /\ QuietQueue
    /\ InitClear
    /\ QuietList
    /\ InitCaller
    /\ InitApi
    /\ InitRoster
    /\ lib_call \in [fn : {"findPlayerMatches"}, searchName : SearchNames,
                     roster : SampleRosters, options : SampleOptions]
    /\ lib_result = NoResult
    /\ regexCache = nameRegexes

\* A call of findPlayerMatches returns.
FindPlayerMatches ==
    /\ lib_call.fn = "findPlayerMatches"
    /\ ~lib_result.returned
    /\ LET r == findPlayerMatches(regexCache, lib_call.searchName,
                                   lib_call.roster, lib_call.options)
       IN  /\ lib_result' = Returned(r.value)
           /\ regexCache' = r.cache
    /\ UNCHANGED <<lib_call, uiSide, apiSide, rosterSide>>

NextMatcher == FindPlayerMatches

SpecMatcher == InitMatcher /\ [][NextMatcher]_vars

\* Calls whose candidates differ in status, team and position: search names
\* that equal a full name exactly, up to letter case, and as a prefix.
ScoringNames ==
    {AlBo, <<"a", "l", " ", "b", "o">>, Al}

ScoringPlayers ==
    {[first_name |-> first, last_name |-> Bo, status |-> st,
      position |-> pos, team |-> team] :
        first \in {Al, Alex}, st \in {"Active", "Inactive", "Injured Reserve"},
        pos \in {"QB", "LB"}, team \in {"", "BUF"}}

ScoringRosters == UNION {[1..n -> ScoringPlayers] : n \in 0..MaxRoster}

ScoringOptions ==
    [requireActive : {NotGiven, Given(FALSE)},
     preferActive : {NotGiven, Given(TRUE)},
     preferredPositions : {NotGiven},
     requirePosition : {NotGiven}]

InitScoring ==
    /\ QuietQueue
    /\ InitClear
    /\ QuietList
    /\ InitCaller
    /\ InitApi
    /\ InitRoster
    /\ lib_call \in [fn : {"findPlayerMatches"}, searchName : ScoringNames,
                     roster : ScoringRosters, options : ScoringOptions]
    /\ lib_result = NoResult
    /\ regexCache = nameRegexes

SpecScoring == InitScoring /\ [][NextMatcher]_vars

\* Calls of findBestMatch: every record matches the search name, one last
\* name exactly and the other as a prefix.
Boz == <<"B", "o", "z">>

BestPlayers ==
    {[first_name |-> Al, last_name |-> last, status |-> st,
      position |-> "QB", team |-> team] :
        last \in {Bo, Boz}, st \in {"Active", "Inactive"}, team \in {"", "BUF"}}

BestRosters == UNION {[1..n -> BestPlayers] : n \in 0..MaxCandidates}

InitBest ==
    /\ QuietQueue
    /\ InitClear
    /\ QuietList
    /\ InitCaller
    /\ InitApi
    /\ InitRoster
    /\ lib_call \in [fn : {"findBestMatch"}, searchName : {AlBo, Al},
                     roster : BestRosters, options : ScoringOptions]
    /\ lib_result = NoResult
    /\ regexCache = nameRegexes

\* A call of findBestMatch returns.
FindBestMatch ==
    /\ lib_call.fn = "findBestMatch"
    /\ ~lib_result.returned
    /\ LET r == findBestMatch(regexCache, lib_call.searchName,
                               lib_call.roster, lib_call.options)
       IN  /\ lib_result' = Returned(r.value)
           /\ regexCache' = r.cache
    /\ UNCHANGED <<lib_call, uiSide, apiSide, rosterSide>>

NextBest == FindBestMatch

SpecBest == InitBest /\ [][NextBest]_vars

\* Repeated calls of findBestMatch with the same arguments, with other
\* names matched in between: every pattern the calls use can be in the cache
\* or not, and in any order of insertion, when a call starts.
AlexBo == Alex \o <<" ">> \o Bo

OtherNames == {AlBo, AlexBo, Al \o <<" ">> \o Boz}

CachePlayers ==
    {[first_name |-> Al, last_name |-> Bo, status |-> "Active",
      position |-> "QB", team |-> "BUF"],
     [first_name |-> Al, last_name |-> Bo, status |-> "Inactive",
      position |-> "QB", team |-> ""],
     [first_name |-> Al, last_name |-> Boz, status |-> "Active",
      position |-> "QB", team |-> "BUF"],
     [first_name |-> Alex, last_name |-> Bo, status |-> "Active",
      position |-> "QB", team |-> ""]}

CacheRosters == UNION {[1..n -> CachePlayers] : n \in 0..MaxRoster}

InitCache ==
    /\ QuietQueue
    /\ InitClear
    /\ QuietList
    /\ InitCaller
    /\ InitApi
    /\ InitRoster
    /\ lib_call \in [fn : {"findBestMatch again"}, searchName : {AlBo, Al},
                     roster : CacheRosters, options : ScoringOptions]
    /\ lib_result = NoResult
    /\ regexCache = nameRegexes

\* One of the calls returns or raises; the sizes of the cache when it started
\* and when it ended are kept with its result.
FindBestMatchAgain ==
    /\ lib_call.fn = "findBestMatch again"
    /\ ~lib_result.returned
    /\ LET r == findBestMatch(regexCache, lib_call.searchName,
                               lib_call.roster, lib_call.options)
           results == Append(lib_result.value,
                             [thrown |-> r.thrown, result |-> r.value,
                              before |-> Len(regexCache),
                              after |-> Len(r.cache)])
       IN  /\ lib_result' = [returned |-> Len(results) = 2,
                             value |-> results]
           /\ regexCache' = r.cache
    /\ UNCHANGED <<lib_call, uiSide, apiSide, rosterSide>>

\* Some other pair of names is compared, which stores their patterns.
OtherNamesMatch ==
    /\ lib_call.fn \in {"findBestMatch again", "namesMatch both ways"}
    /\ ~lib_result.returned
    /\ \E n0 \in OtherNames, n1 \in OtherNames :
          LET m == namesMatch(regexCache, n0, n1)
          IN  /\ m.cache # regexCache
              /\ regexCache' = m.cache
    /\ UNCHANGED <<lib_call, lib_result, uiSide, apiSide, rosterSide>>

NextCache == FindBestMatchAgain \/ OtherNamesMatch

SpecCache == InitCache /\ [][NextCache]_vars

\* Calls of processPlayerList: names with and without white space around
\* them, blank names, a name whose pattern does not compile and a name that
\* matches nobody; the roster is missing, empty, or holds one or two records
\* that match "Al Bo".
Zed == <<"Z", "e", "d">>

ListNames ==
    {AlBo, <<" ">> \o AlBo \o <<" ">>, <<>>, <<" ", " ">>,
     Al \o <<" ", "(">>, Zed}

AlBoRecord ==
    [first_name |-> Al, last_name |-> Bo, status |-> "Active",
     position |-> "QB", team |-> "BUF"]

ListRosters ==
    {NotGiven, Given(<<>>), Given(<<AlBoRecord>>),
     Given(<<AlBoRecord, AlBoRecord>>)}

InitNames ==
    /\ QuietQueue
    /\ InitClear
    /\ QuietList
    /\ InitCaller
    /\ InitApi
    /\ InitRoster
    /\ lib_call \in [fn : {"processPlayerList"},
                     playerNames : UNION {[1..n -> ListNames] : n \in 0..MaxNames},
                     players : ListRosters,
                     options : [requireActive : {NotGiven},
                                preferActive : {NotGiven},
                                preferredPositions : {NotGiven},
                                requirePosition : {NotGiven}]]
    /\ lib_result = NoResult
    /\ regexCache = nameRegexes

\* A call of processPlayerList returns or raises.
ProcessPlayerList ==
    /\ lib_call.fn = "processPlayerList"
    /\ ~lib_result.returned
    /\ LET r == processPlayerList(regexCache, lib_call.playerNames,
                                   lib_call.players, lib_call.options)
       IN  /\ lib_result' = Returned(r.value)
           /\ regexCache' = r.cache
    /\ UNCHANGED <<lib_call, uiSide, apiSide, rosterSide>>

NextNames == ProcessPlayerList

SpecNames == InitNames /\ [][NextNames]_vars

\* Calls of namesMatch with a pair of names, then with the same pair the
\* other way round, with other names compared before, between and after:
\* short and long names, first names with a pattern of their own, a
\* diacritic, names with a period, an apostrophe and a hyphen, the empty
\* string, and a name with an opening parenthesis.
PairNames ==
    {Al, AlBo, Alex, AlexBo, <<"U+00C1", "l">>, Al \o <<" ", "(">>,
     <<"A", ".", "J">>, <<"O", "'", "A", "-", "B">>, <<>>}

InitPair ==
    /\ QuietQueue
    /\ InitClear
    /\ QuietList
    /\ InitCaller
    /\ InitApi
    /\ InitRoster
    /\ lib_call \in [fn : {"namesMatch both ways"}, n0 : PairNames,
                     n1 : PairNames]
    /\ lib_result = NoResult
    /\ regexCache = nameRegexes

\* namesMatch(n0, n1) returns or raises.
NamesMatchForward ==
    /\ lib_call.fn = "namesMatch both ways"
    /\ lib_result.value = <<>>
    /\ LET m == namesMatch(regexCache, lib_call.n0, lib_call.n1)
       IN  /\ lib_result' = [returned |-> FALSE, value |-> <<m.outcome>>]
           /\ regexCache' = m.cache
    /\ UNCHANGED <<lib_call, uiSide, apiSide, rosterSide>>

\* namesMatch(n1, n0) returns or raises.
NamesMatchBackward ==
    /\ lib_call.fn = "namesMatch both ways"
    /\ Len(lib_result.value) = 1
    /\ LET m == namesMatch(regexCache, lib_call.n1, lib_call.n0)
       IN  /\ lib_result' = Returned(Append(lib_result.value, m.outcome))
           /\ regexCache' = m.cache
    /\ UNCHANGED <<lib_call, uiSide, apiSide, rosterSide>>

NextPair == NamesMatchForward \/ NamesMatchBackward \/ OtherNamesMatch

SpecPair == InitPair /\ [][NextPair]_vars

\* Calls of asciiFold, and of asciiFold on what it returned: ASCII letters,
\* characters of the table with replacements of one and of two letters, and
\* a character outside ASCII that the table does not hold.
FoldChars == {"A", "z", "U+00C1", "U+00DF", "U+00C6", "U+20AC"}

InitFold ==
    /\ QuietQueue
    /\ InitClear
    /\ QuietList
    /\ InitCaller
    /\ InitApi
    /\ InitRoster
    /\ lib_call \in [fn : {"asciiFold"},
                     str : UNION {[1..n -> FoldChars] : n \in 0..MaxLen}]
    /\ lib_result = NoResult
    /\ regexCache = nameRegexes

\* asciiFold(str) returns.
AsciiFold ==
    /\ lib_call.fn = "asciiFold"
    /\ lib_result.value = <<>>
    /\ lib_result' = [returned |-> FALSE,
                      value |-> <<asciiFold(lib_call.str)>>]
    /\ UNCHANGED <<lib_call, regexCache, uiSide, apiSide, rosterSide>>

\* asciiFold of the string returned before returns.
AsciiFoldAgain ==
    /\ lib_call.fn = "asciiFold"
    /\ Len(lib_result.value) = 1
    /\ lib_result' = Returned(Append(lib_result.value,
                                     asciiFold(lib_result.value[1])))
    /\ UNCHANGED <<lib_call, regexCache, uiSide, apiSide, rosterSide>>

NextFold == AsciiFold \/ AsciiFoldAgain

SpecFold == InitFold /\ [][NextFold]_vars

\* Calls of compareInputWithQueue: up to MaxPlayers analysed inputs, without
\* a best match or with one whose full_name is a name, a first name only, or
\* missing, against up to MaxQueue names scanned from the queue.
CompareMatches ==
    {NoBestMatch, BestMatch(JsString(AlBo)), BestMatch(JsString(JaCy)),
     BestMatch(JsString(Al)), BestMatch(JsUndefined)}

QueueNames == {AlBo, Bo, AlBo \o <<"z">>}

InitCompare ==
    /\ QuietQueue
    /\ InitClear
    /\ QuietList
    /\ InitCaller
    /\ InitApi
    /\ InitRoster
    /\ \E n \in 0..MaxPlayers, q \in 0..MaxQueue :
         \E matches \in [1..n -> CompareMatches], names \in [1..q -> QueueNames] :
            lib_call = [fn |-> "compareInputWithQueue",
                        inputAnalysis |-> [i \in 1..n |->
                            [input |-> i, bestMatch |-> matches[i]]],
                        queueNames |-> names]
    /\ lib_result = NoResult
    /\ regexCache = nameRegexes

\* compareInputWithQueue returns or raises.
CompareInputWithQueue ==
    /\ lib_call.fn = "compareInputWithQueue"
    /\ ~lib_result.returned
    /\ lib_result' = Returned(compareInputWithQueue(lib_call.inputAnalysis,
                                                    lib_call.queueNames))
    /\ UNCHANGED <<lib_call, regexCache, uiSide, apiSide, rosterSide>>

NextCompare == CompareInputWithQueue

SpecCompare == InitCompare /\ [][NextCompare]_vars

\* Scans of a page by clearQueue and validateQueue: up to MaxQueue
\* '.delete-button' elements, with the label REMOVE or another, inside a
\* container or not, next to a text with a name or without one.
PageButtons ==
    [isRemove : BOOLEAN, hasContainer : BOOLEAN,
     text : {AlBo \o <<" ", "Q", "B", " ", "R", "E", "M", "O", "V", "E">>,
             <<"R", "E", "M", "O", "V", "E">>}]

InitScan ==
    /\ QuietQueue
    /\ InitClear
    /\ QuietList
    /\ InitCaller
    /\ InitApi
    /\ InitRoster
    /\ lib_call \in [fn : {"findQueuedPlayers"},
                     caller : {"clearQueue", "validateQueue"},
                     buttons : UNION {[1..n -> PageButtons] : n \in 0..MaxQueue}]
    /\ lib_result = NoResult
    /\ regexCache = nameRegexes

\* findQueuedPlayers returns its list or raises (lines 1016 and 700).
ScanQueue ==
    /\ lib_call.fn = "findQueuedPlayers"
    /\ lib_result.value = <<>>
    /\ lib_result' = [returned |-> FALSE,
                      value |-> <<findQueuedPlayersOn(lib_call.buttons)>>]
    /\ UNCHANGED <<lib_call, regexCache, uiSide, apiSide, rosterSide>>

\* The caller goes on with the list, or its catch block shows the failure of
\* the operation: 'Clear operation failed' (lines 1098-1101), 'Validation
\* failed' (lines 716-718).
AfterScan ==
    /\ lib_call.fn = "findQueuedPlayers"
    /\ Len(lib_result.value) = 1
    /\ lib_result' = Returned(Append(lib_result.value,
            IF lib_result.value[1].raised THEN "operation failed"
            ELSE "per-item outcomes"))
    /\ UNCHANGED <<lib_call, regexCache, uiSide, apiSide, rosterSide>>

NextScan == ScanQueue \/ AfterScan

SpecScan == InitScan /\ [][NextScan]_vars

\* ======================================================== clearQueue claims
InRemoval == cq_pc \in {"rm_attached", "rm_visible", "rm_clicked"}

\* C1: every clearQueue run terminates: once started, the removal loop
\* eventually exits and the run ends, whatever the page does (removals that
\* fail, re-scans that do not shrink or that grow).
C1_ClearTerminates == (cq_pc = "scan") ~> (cq_pc = "done")

\* C2: in every clearQueue run the number of recorded removal attempts never
\* exceeds the number of entries found by the scan at loop start.
C2_AttemptsBounded == Len(clearResults) <= totalPlayers

\* C3: every removal attempt acts on the first entry of the most recent
\* scan; after each attempt the settle delay elapses and then a fresh scan
\* is taken before the next entry is chosen, so no attempt uses an entry of
\* an older scan.
C3_FreshScanBeforeAttempt ==
    /\ phase # "unordered"
    /\ InRemoval =>
         /\ lastScan # <<>>
         /\ queuedPlayer = Head(lastScan)
         /\ attempt.entry = Head(lastScan)
         /\ phase \in {"none", "scanned"}
         /\ (phase = "none") = (rescans = 0)
    /\ (cq_pc = "loop" /\ iterations > 0) =>
         (phase = "scanned" /\ queuedPlayers = lastScan)

\* A second attempt that acts on the head of the re-scan, which differs
\* from the head of the first scan.
C3_Witness ==
    /\ cq_pc = "rm_attached"
    /\ phase = "scanned"
    /\ clearResults = <<"success">>
    /\ queuedPlayer = 2
    /\ lastScan = <<2>>

\* C4: removePlayerFromQueue clicks the remove button only if the button
\* was attached when the attempt started and visible immediately before the
\* click; a detached or invisible button is not clicked, the attempt
\* returns false (recorded as 'failed', no exception), and clearQueue
\* settles and re-scans before the next item.
C4_TriggerOnlyWhenAttachedAndVisible ==
    /\ attempt.clicked => (attempt.attachedAtStart /\ attempt.visibleAtTrigger)
    /\ removeClicks # {} => iterations > 0
    /\ (cq_pc = "record" /\ ~(attempt.attachedAtStart /\ attempt.visibleAtTrigger)) =>
         (~attempt.clicked /\ removeResult = FALSE)
    /\ (cq_pc = "settle" /\ ~attempt.clicked /\ iterations < MaxOutcomes) =>
         clearResults[Len(clearResults)] = "failed"
    /\ (cq_pc = "rm_attached" /\ iterations > 1) => phase = "scanned"

\* An attempt on a button that was attached at the start but turned
\* invisible during the wait: not clicked, recorded as failed.
C4_Witness ==
    /\ cq_pc = "settle"
    /\ attempt.attachedAtStart
    /\ ~attempt.visibleAtTrigger
    /\ ~attempt.clicked
    /\ clearResults = <<"failed">>

C6_EmptyQueueReturnsAtOnce ==
    (cq_pc \notin {"idle", "scan"} /\ totalPlayers = 0) =>
        /\ cq_pc = "done"
        /\ lastScan = <<>>
        /\ clearResults = <<>>
        /\ successCount = 0
        /\ failureCount = 0
        /\ removeClicks = {}
        /\ iterations = 0
        /\ rescans = 0

\* A finished run whose only scan was empty.
C6_Witness ==
    /\ cq_pc = "done"
    /\ totalPlayers = 0
    /\ lastScan = <<>>
    /\ clearResults = <<>>

\* ================================================= addPlayerToQueue claims
Searching ==
    add_pc \in {"s_type", "s_check", "s_recheck", "s_alt", "s_altcheck",
                "s_finalclear"}

\* C7: whenever the fallback finds the player after driving the filter (by
\* a variation or by the alternate triggers), the add element is clicked
\* while the filter still holds the narrowing value and the filter is
\* cleared only afterwards; the input is empty when addPlayerToQueue
\* returns.
C7_TriggerWhileNarrowed ==
    (add_pc = "returned" /\ obs.foundBy \in {"variation", "alternate"}
                         /\ obs.accepted) =>
        /\ \E i \in 1..Len(obs.clicks) :
             /\ ~obs.clicks[i].afterClear
             /\ obs.clicks[i].host = Last(obs.driven)
        /\ inputValue = <<>>

\* .replace of every character that is neither a letter nor a space.
removePunctuation(str) ==
    SelectSeq(str, LAMBDA c : toLowerCase(<<c>>)[1] \in LowerLetters \/ c = " ")

C9_DirectAddLeavesFilter ==
    (obs.directMatch /\ add_pc \in {"a_click", "returned"}) =>
        /\ obs.foundBy = "direct"
        /\ obs.driven = <<>>
        /\ ~obs.cleared
        /\ inputValue = obs.atCallInput
        /\ hostFilter = obs.atCallHost
        /\ elem \in Rows
        /\ checkPlayerNameInText(playerName, RowText(elem))
        /\ add_pc = "returned" =>
             /\ addResult
             /\ Len(obs.clicks) = 1
             /\ obs.clicks[1].row = elem

\* A direct add that succeeded and left the user's search text in place.
C9_Witness ==
    /\ add_pc = "returned"
    /\ obs.directMatch
    /\ addResult
    /\ Len(obs.clicks) = 1
    /\ inputValue = UserText
    /\ hostFilter = UserText

\* C10: addPlayerToQueue never raises to its caller: no call rejects and
\* queuePlayers never records an 'error' outcome.
C10_AddNeverRaises ==
    /\ ~obs.raised
    /\ \A i \in 1..Len(queueResults) : queueResults[i] # "error"

\* C11: every addPlayerToQueue call terminates: a call that has started
\* returns, having driven at most six variations, each followed by its
\* settle wait and check, and the alternative triggers are a fixed
\* sequence that is never repeated for the same variation.
C11_AddCallTerminates == (add_pc = "a_find") ~> (add_pc = "returned")

\* A call that went through all six variations and the alternative
\* triggers with a working search input, found nothing and returned.
C11_Witness ==
    /\ add_pc = "returned"
    /\ ~addResult
    /\ hasHandler
    /\ obs.accepted
    /\ Len(obs.driven) = 6
    /\ obs.checks = 6
    /\ obs.cleared

\* ===================================================== queuePlayers claims
\* An outcome has been pushed and obs still describes the call it is for.
Recorded ==
    /\ Len(queueResults) > 0
    /\ qp_pc \in {"item", "delay", "display", "done"}

\* C12: queuePlayers records 'success' exactly when an add element whose
\* container matches the player was located and clicked, whatever the page
\* then did with the click; 'failed' exactly when no element was found
\* after all strategies; 'error' exactly when the add attempt raised.
C12_StatusReflectsTrigger ==
    Recorded =>
        /\ Last(queueResults) = "success" <=>
              /\ obs.foundBy # "none"
              /\ elem \in Rows
              /\ checkPlayerNameInText(playerName, RowText(elem))
              /\ obs.clicks # <<>>
              /\ Last(obs.clicks).row = elem
        /\ Last(queueResults) = "failed" <=>
              /\ ~obs.raised
              /\ obs.foundBy = "none"
              /\ obs.clicks = <<>>
              /\ hasInput => Len(obs.driven) = 6
        /\ Last(queueResults) = "error" <=> obs.raised

\* 'success' recorded for a click the page did not turn into a queue entry.
C12_Witness ==
    /\ Recorded
    /\ Last(queueResults) = "success"
    /\ obs.clicks # <<>>
    /\ elem \notin inQueue

\* One player's add is in progress: addPlayerToQueue has been called and
\* has not returned.
AddActing == add_pc \notin {"none", "returned"}

\* C13: at most one add-or-remove operation acts on the page at any time:
\* no addPlayerToQueue call is in progress while removePlayerFromQueue is.
C13_OneOperationAtATime == ~(AddActing /\ InRemoval)

\* C14: a finished queuePlayers run has produced one outcome per player of
\* the analysed list it was started with (successCount + failureCount is
\* that list's length), also when the list was replaced during the run.
C14_OneOutcomePerPlayer ==
    qp_pc = "done" =>
        /\ Len(queueResults) = Len(runList)
        /\ qSuccess + qFailure = Len(runList)

\* C15: the add loop consults the caller's cancellation check at the top
\* of each iteration: once the caller has asked for a stop, no further
\* player is started (no call of addPlayerToQueue, no outcome pushed).
C15_NoItemAfterCancel ==
    [][(cancelRequested /\ qp_pc = "item") =>
          (qp_pc' # "adding" /\ queueResults' = queueResults)]_vars

\* ======================================================= SleeperAPI claims
\* C16: when the roster request fails, getPlayers returns the cached roster
\* if any entry exists (expired or not, forced or not) and leaves the entry
\* and its timestamp as they were; it raises only when there is no entry.
C16_FailedRequestFallsBack ==
    [][\A c \in Calls :
         (call[c].pc = "fetching" /\ call'[c].pc = "done") =>
            /\ apiCache' = apiCache
            /\ apiCache.present => call'[c].result = apiCache.data
            /\ ~apiCache.present => call'[c].result = "raised"]_vars

\* A forced refresh whose request failed and which returned the expired
\* entry.
C16_Witness ==
    \E c \in Calls :
        /\ call[c].pc = "done"
        /\ call[c].force
        /\ call[c].failed
        /\ call[c].stale
        /\ call[c].result \in Rosters
        /\ call[c].result = apiCache.data

\* C17: getPlayers issues no request and returns the cached roster exactly
\* when forceRefresh is false and an entry younger than cacheExpiry exists;
\* otherwise it goes on to issue a request, and a successful request
\* replaces the entry with the new data and the current time.
C17_CacheDecidesRequest ==
    [][\A c \in Calls :
         /\ (call[c].pc \in {"idle", "done"} /\ call'[c] # call[c]) =>
               IF /\ ~call'[c].force
                  /\ apiCache.present
                  /\ now - apiCache.timestamp < cacheExpiry
                  THEN /\ call'[c].pc = "done"
                       /\ call'[c].result = apiCache.data
                       /\ ~call'[c].requested
                       /\ lastFetch' = lastFetch
                       /\ apiCache' = apiCache
                  ELSE call'[c].pc \in {"waiting", "fetching"}
         /\ (call[c].pc = "waiting" /\ call'[c] # call[c]) =>
               (call'[c].pc = "fetching" /\ call'[c].requested)
         /\ (call[c].pc = "fetching" /\ call'[c].pc = "saving") =>
               /\ call'[c].response \in Rosters
               /\ apiCache' = CacheEntry(call'[c].response, now)
         /\ (call[c].pc = "saving" /\ call'[c] # call[c]) =>
               (call'[c].pc = "done" /\ call'[c].result = call[c].response)]_vars

\* A later call within the expiry of a stored roster returned it without
\* a request.
C17_Witness ==
    \E c \in Calls :
        /\ call[c].pc = "done"
        /\ ~call[c].force
        /\ ~call[c].requested
        /\ apiCache.present
        /\ call[c].result = apiCache.data
        /\ now > apiCache.timestamp

\* C18: any two requests of the instance start at least rateLimitDelay
\* apart.
C18_RequestsSpacedApart ==
    [][\A c \in Calls :
         (call[c].pc # "fetching" /\ call'[c].pc = "fetching") =>
            (lastFetch = NoTime \/ now - lastFetch >= rateLimitDelay)]_vars

\* ---------------------------------------------------------- roster claims
\* C19: when the roster fetch failed and no cached roster exists, an
\* operation that needs the roster (analyzePlayers, validateQueue) surfaces a
\* failure: the panel never shows a normally completed analysis, with
\* per-name "no match" lines, while the helper has no roster.
C19_NoRosterSurfacesFailure ==
    (ld_pc = "done" /\ players = "null" /\ call[LoadCall].failed)
        => /\ panel.analysis # "success"
           /\ panel.validation # "shown"

\* ------------------------------------------------------ NameMatcher claims
\* The entries of a returned list that stand for roster record id.
EntriesFor(id) ==
    {k \in DOMAIN lib_result.value : lib_result.value[k].playerId = id}

\* The record is one the claim says findPlayerMatches must return.
Qualifies(id) ==
    LET player == lib_call.roster[id]
        opts == lib_call.options
    IN  /\ Len(player.first_name) > 0
        /\ Len(player.last_name) > 0
        /\ (~opts.requireActive.given \/ opts.requireActive.val)
              => player.status = "Active"
        /\ (opts.requirePosition.given /\ opts.requirePosition.val
            /\ opts.preferredPositions.given)
              => player.position \in opts.preferredPositions.val
        /\ namesMatch(nameRegexes, lib_call.searchName,
                      player.first_name \o <<" ">> \o player.last_name).outcome
              = "true"

\* C20: findPlayerMatches returns exactly the roster records that have a
\* first and a last name, pass the hard filters (status Active when
\* requireActive, which defaults to true; position in the given set when
\* requirePosition is on) and whose full name matches the search name: each
\* such record appears once, and no other record appears.
C20_ExactlyTheQualifyingRecords ==
    (lib_call.fn = "findPlayerMatches" /\ lib_result.returned) =>
        /\ \A k \in DOMAIN lib_result.value :
               /\ lib_result.value[k].playerId \in DOMAIN lib_call.roster
               /\ Qualifies(lib_result.value[k].playerId)
               /\ \A f \in {"first_name", "last_name", "status", "position", "team"} :
                      lib_result.value[k][f]
                          = lib_call.roster[lib_result.value[k].playerId][f]
        /\ \A id \in DOMAIN lib_call.roster :
               Cardinality(EntriesFor(id)) = IF Qualifies(id) THEN 1 ELSE 0

\* A call over two records returned one of them and left out the other,
\* which lacks a last name, with the default requireActive.
C20_Witness ==
    /\ lib_call.fn = "findPlayerMatches" /\ lib_result.returned
    /\ Len(lib_call.roster) = 2
    /\ Len(lib_result.value) = 1
    /\ ~lib_call.options.requireActive.given
    /\ \E id \in DOMAIN lib_call.roster :
         /\ lib_call.roster[id].last_name = <<>>
         /\ lib_call.roster[id].status = "Active"

\* C21: every confidence produced by findPlayerMatches lies in [0,1]
\* (0..100 hundredths), and a candidate whose full name equals the search
\* name case-insensitively has confidence exactly 1.0 whatever its status,
\* team and position.
C21_ConfidenceInRange ==
    (lib_call.fn = "findPlayerMatches" /\ lib_result.returned) =>
        \A k \in DOMAIN lib_result.value :
            /\ lib_result.value[k].confidence \in 0..100
            /\ Lower(lib_result.value[k].fullName) = Lower(lib_call.searchName)
                  => lib_result.value[k].confidence = 100

\* A candidate without Active status, team or fantasy position, whose name
\* equals the search name only up to letter case, was returned with 1.0,
\* next to a candidate with every bonus.
C21_Witness ==
    /\ lib_call.fn = "findPlayerMatches" /\ lib_result.returned
    /\ \E k \in DOMAIN lib_result.value :
         /\ lib_result.value[k].fullName # lib_call.searchName
         /\ Lower(lib_result.value[k].fullName) = Lower(lib_call.searchName)
         /\ lib_result.value[k].status = "Inactive"
         /\ lib_result.value[k].team = ""
         /\ lib_result.value[k].position = "LB"
         /\ lib_result.value[k].confidence = 100
    /\ \E k \in DOMAIN lib_result.value :
         /\ lib_result.value[k].status = "Active"
         /\ lib_result.value[k].team = "BUF"
         /\ lib_result.value[k].position = "QB"

\* preferActive as findPlayerMatches reads it (default false).
PreferActiveSet ==
    lib_call.options.preferActive.given /\ lib_call.options.preferActive.val

\* C22: the list returned by findPlayerMatches is ordered by non-increasing
\* confidence; when preferActive is set, every Active candidate precedes
\* every non-Active candidate regardless of confidence, and confidence is
\* non-increasing within the Active group and within the non-Active group.
C22_OrderedByConfidence ==
    (lib_call.fn = "findPlayerMatches" /\ lib_result.returned) =>
        \A i, j \in DOMAIN lib_result.value :
            i < j =>
              LET a == lib_result.value[i]
                  b == lib_result.value[j]
              IN  IF PreferActiveSet
                     THEN /\ ~(a.status # "Active" /\ b.status = "Active")
                          /\ (a.status = "Active") = (b.status = "Active")
                                => a.confidence >= b.confidence
                     ELSE a.confidence >= b.confidence

\* With preferActive set, an Active candidate that was inserted second came
\* before a non-Active one of higher confidence.
C22_Witness ==
    /\ lib_call.fn = "findPlayerMatches" /\ lib_result.returned
    /\ PreferActiveSet
    /\ Len(lib_result.value) = 2
    /\ lib_result.value[1].status = "Active"
    /\ lib_result.value[1].playerId = 2
    /\ lib_result.value[2].status = "Injured Reserve"
    /\ lib_result.value[1].confidence < lib_result.value[2].confidence

\* The candidates of the findBestMatch call under examination, as ranked by
\* findPlayerMatches.
Candidates ==
    findPlayerMatches(nameRegexes, lib_call.searchName, lib_call.roster,
                      lib_call.options).value

BestReturned == lib_call.fn = "findBestMatch" /\ lib_result.returned

\* Candidate k's confidence exceeds every other candidate's by more than 0.1.
Dominates(k) ==
    \A j \in DOMAIN Candidates :
        j # k => Candidates[k].confidence > Candidates[j].confidence + 10

\* The call returned candidate k as a unique match.
ReturnedUnique(k) ==
    /\ lib_result.value.found
    /\ ~lib_result.value.needsDisambiguation
    /\ lib_result.value.best.playerId = Candidates[k].playerId

\* C23: findBestMatch returns no match for an empty candidate list and the
\* single candidate for a one-element list; with two or more candidates, if
\* the highest confidence exceeds the next-highest by more than 0.1, it
\* returns the highest-confidence candidate as a unique match, for every
\* option setting including preferActive.
C23_DominantCandidateWins ==
    BestReturned =>
        /\ Len(Candidates) = 0 => ~lib_result.value.found
        /\ Len(Candidates) = 1 => ReturnedUnique(1)
        /\ \A k \in DOMAIN Candidates :
               (Len(Candidates) >= 2 /\ Dominates(k)) => ReturnedUnique(k)

\* The highest confidence among the candidates.
TopConfidence ==
    CHOOSE c \in {Candidates[k].confidence : k \in DOMAIN Candidates} :
        \A k \in DOMAIN Candidates : Candidates[k].confidence <= c

\* The candidates within 0.1 of the top confidence.
TiedSet ==
    {k \in DOMAIN Candidates : Candidates[k].confidence + 10 >= TopConfidence}

NoDominant ==
    /\ Len(Candidates) >= 2
    /\ ~\E k \in DOMAIN Candidates : Dominates(k)

ActiveTied == {k \in TiedSet : Candidates[k].status = "Active"}

\* The tied candidates left when the active tie-break singles out nobody.
RemainingTied == IF ActiveTied = {} THEN TiedSet ELSE ActiveTied

WithTeam(S) == {k \in S : Candidates[k].team # ""}

\* C24: when findBestMatch has several candidates and no dominant winner,
\* and exactly one candidate among those tied with the top is Active, that
\* candidate is returned as a unique match; a candidate returned because it
\* is the only Active one always belongs to the tied set.
C24_ActiveTieBreak ==
    (BestReturned /\ NoDominant) =>
        /\ \A k \in ActiveTied : ActiveTied = {k} => ReturnedUnique(k)
        /\ \A k \in DOMAIN Candidates :
               (/\ ReturnedUnique(k)
                /\ Candidates[k].status = "Active"
                /\ \A j \in DOMAIN Candidates :
                       Candidates[j].status = "Active" => j = k)
                  => k \in TiedSet

\* C25: when the active tie-break does not single out a candidate and exactly
\* one of the remaining tied candidates has a team affiliation, findBestMatch
\* returns that candidate as a unique match, both when several tied
\* candidates are Active and when none of them is.
C25_TeamTieBreak ==
    (BestReturned /\ NoDominant /\ Cardinality(ActiveTied) # 1) =>
        \A k \in RemainingTied :
            WithTeam(RemainingTied) = {k} => ReturnedUnique(k)

VariantOf(r) ==
    IF r.thrown THEN "raised"
    ELSE IF ~r.result.found THEN "none"
    ELSE IF r.result.needsDisambiguation THEN "ambiguous"
    ELSE "chosen"

\* C27: findBestMatch is deterministic: two calls with the same search name,
\* roster and options return the same variant of result and, when a candidate
\* is chosen, the same player id, whichever names were matched in between,
\* that is whatever the pattern cache holds.
C27_Deterministic ==
    (lib_call.fn = "findBestMatch again" /\ Len(lib_result.value) = 2)
        => LET r1 == lib_result.value[1]
               r2 == lib_result.value[2]
           IN  /\ VariantOf(r1) = VariantOf(r2)
               /\ VariantOf(r1) = "chosen"
                      => r1.result.best.playerId = r2.result.best.playerId

\* C27 witness: the second call chose a candidate among two, and started with
\* patterns in the cache that were stored by other comparisons after the
\* first call ended.
C27_Witness ==
    /\ lib_call.fn = "findBestMatch again"
    /\ Len(lib_result.value) = 2
    /\ Len(lib_call.roster) = 2
    /\ VariantOf(lib_result.value[2]) = "chosen"
    /\ lib_result.value[2].before > lib_result.value[1].after

\* The name is empty or holds white space only.
IsBlank(name) == \A i \in 1..Len(name) : name[i] = " "

\* The four lists of a result, and the positions of the entries that carry
\* the index of the name at position i of the input.
ListsOf(results) ==
    <<results.matched, results.unmatched, results.ambiguous, results.errors>>

EntriesOf(results, i) ==
    {<<l, k>> \in (1..4) \X (1..MaxNames + 1) :
        /\ k <= Len(ListsOf(results)[l])
        /\ ListsOf(results)[l][k].index = i - 1}

InInputOrder(list) ==
    \A k \in 1..(Len(list) - 1) : list[k].index < list[k + 1].index

\* C28: processPlayerList places each name that is not blank after trimming
\* in exactly one of matched, unmatched, ambiguous and errors, with its input
\* index, each list in input order, and places the names that are empty or
\* white space only in none of them.
C28_Partition ==
    (lib_call.fn = "processPlayerList" /\ lib_result.returned)
        => LET results == lib_result.value
           IN  /\ ~results.raised
               /\ \A i \in 1..Len(lib_call.playerNames) :
                      Cardinality(EntriesOf(results, i))
                          = IF IsBlank(lib_call.playerNames[i]) THEN 0 ELSE 1
               /\ \A l \in 1..4 :
                      /\ InInputOrder(ListsOf(results)[l])
                      /\ \A k \in 1..Len(ListsOf(results)[l]) :
                             ListsOf(results)[l][k].index
                                 \in 0..(Len(lib_call.playerNames) - 1)

\* C28 witness: a list of three names, the second blank, whose first name was
\* matched after trimming and whose third was not matched.
C28_Witness ==
    /\ lib_call.fn = "processPlayerList"
    /\ lib_result.returned
    /\ lib_call.playerNames = <<<<" ">> \o AlBo \o <<" ">>, <<" ", " ">>, Zed>>
    /\ Len(lib_result.value.matched) = 1
    /\ lib_result.value.matched[1].index = 0
    /\ lib_result.value.matched[1].searchName = AlBo
    /\ Len(lib_result.value.unmatched) = 1
    /\ lib_result.value.unmatched[1].index = 2
    /\ lib_result.value.errors = <<>>

\* Resolving the name at position i of the input fails: the call of
\* findBestMatch for it raises.
Fails(i) ==
    /\ ~IsBlank(lib_call.playerNames[i])
    /\ findBestMatchIn(nameRegexes, Trim(lib_call.playerNames[i]),
                       lib_call.players, lib_call.options).thrown

\* C29: processPlayerList never raises: when resolving one name fails with
\* an internal error, for instance because the roster is missing, that name
\* is recorded in errors with its index and every later name is still
\* processed.
C29_NeverRaises ==
    (lib_call.fn = "processPlayerList" /\ lib_result.returned)
        => LET results == lib_result.value
           IN  /\ ~results.raised
               /\ \A i \in 1..Len(lib_call.playerNames) :
                      Fails(i)
                          => /\ \E k \in 1..Len(results.errors) :
                                    /\ results.errors[k].index = i - 1
                                    /\ results.errors[k].searchName
                                           = lib_call.playerNames[i]
                             /\ \A j \in (i + 1)..Len(lib_call.playerNames) :
                                    ~IsBlank(lib_call.playerNames[j])
                                        => EntriesOf(results, j) # {}

\* C29 witness: the first name failed, its pattern not compiling, and is in
\* errors with index 0, and the name after it was matched.
C29_Witness ==
    /\ lib_call.fn = "processPlayerList"
    /\ lib_result.returned
    /\ lib_call.playerNames = <<Al \o <<" ", "(">>, AlBo>>
    /\ lib_call.players = Given(<<AlBoRecord>>)
    /\ Len(lib_result.value.errors) = 1
    /\ lib_result.value.errors[1].index = 0
    /\ Len(lib_result.value.matched) = 1
    /\ lib_result.value.matched[1].index = 1

\* C30: namesMatch is symmetric: for all names n1 and n2, namesMatch(n1, n2)
\* equals namesMatch(n2, n1), in whatever order earlier calls filled the
\* pattern cache.
C30_Symmetric ==
    (lib_call.fn = "namesMatch both ways" /\ lib_result.returned)
        => lib_result.value[1] = lib_result.value[2]

\* C31: namesMatch is reflexive after folding: for every name n, including
\* names with hyphens, periods, apostrophes or other characters that mean
\* something in a pattern, namesMatch(fold(n), fold(n)) is true.
C31_Reflexive ==
    (/\ lib_call.fn = "namesMatch both ways"
     /\ lib_call.n0 = asciiFold(lib_call.n0)
     /\ lib_call.n1 = lib_call.n0
     /\ Len(lib_result.value) >= 1)
        => lib_result.value[1] = "true"

\* C32: namesMatch returns false, and does not raise, whenever either
\* argument is the empty string.
C32_EmptyIsFalse ==
    (/\ lib_call.fn = "namesMatch both ways"
     /\ (lib_call.n0 = <<>> \/ lib_call.n1 = <<>>)
     /\ Len(lib_result.value) >= 1)
        => lib_result.value[1] = "false"

\* What the table says a character becomes: the ASCII letters of the rows
\* that hold it, or the character itself when no row holds it.
BaseLetters(c) ==
    IF c \in Diacritics
       THEN {asciiToDiacritic[k][1] : k \in
                {h \in DOMAIN asciiToDiacritic :
                    \E j \in DOMAIN asciiToDiacritic[h][2] :
                        asciiToDiacritic[h][2][j] = c}}
       ELSE {<<c>>}

RECURSIVE FoldsTo(_, _)
\* out is str with every character replaced by what the table says.
FoldsTo(str, out) ==
    IF str = <<>> THEN out = <<>>
    ELSE \E piece \in BaseLetters(Head(str)) :
            /\ Len(piece) <= Len(out)
            /\ SubSeq(out, 1, Len(piece)) = piece
            /\ FoldsTo(Tail(str), SubSeq(out, Len(piece) + 1, Len(out)))

\* C33: asciiFold is total and idempotent: for every string it returns,
\* folding what it returned returns the same, the characters with a table
\* entry are replaced by their ASCII base letters, and the characters
\* without an entry pass through unchanged.
C33_FoldIdempotent ==
    /\ (lib_call.fn = "asciiFold" /\ Len(lib_result.value) >= 1)
           => FoldsTo(lib_call.str, lib_result.value[1])
    /\ (lib_call.fn = "asciiFold" /\ lib_result.returned)
           => lib_result.value[2] = lib_result.value[1]

\* C33 witness: a string with a character replaced by two letters, a
\* character without an entry and a character replaced by one letter was
\* folded, and folded again.
C33_Witness ==
    /\ lib_call.fn = "asciiFold"
    /\ lib_result.returned
    /\ lib_call.str = <<"U+00DF", "U+20AC", "U+00C1">>
    /\ lib_result.value[2] = <<"s", "s", "U+20AC", "A">>

\* The tokens of the text once the removal label is stripped, and the tokens
\* the claim discards: numbers and position abbreviations.
StrippedTokens == wordsOf(removeLabel(lib_call.text))

Discarded(token) ==
    \/ token # <<>> /\ \A i \in 1..Len(token) : token[i] \in Digits
    \/ \E p \in {<<"Q", "B">>, <<"R", "B">>, <<"W", "R">>, <<"T", "E">>,
                 <<"K">>, <<"D", "E", "F">>, <<"D", "S", "T">>} :
           Lower(token) = Lower(p)

Surviving ==
    SelectSeq(SubSeq(StrippedTokens, 1, Min(3, Len(StrippedTokens))),
              LAMBDA token : ~Discarded(token))

\* C34: extractPlayerName strips the removal label, then among the first
\* three tokens discards the numbers and the position abbreviations and
\* returns the first two that survive joined by a space; when fewer than two
\* survive it returns the first two tokens as they are; when the text has
\* fewer than two tokens it returns null.
C34_ExtractedName ==
    (lib_call.fn = "extractPlayerName" /\ lib_result.returned)
        => lib_result.value =
              IF Len(StrippedTokens) < 2 THEN NotGiven
              ELSE IF Len(Surviving) >= 2
                 THEN Given(Surviving[1] \o <<" ">> \o Surviving[2])
              ELSE Given(StrippedTokens[1] \o <<" ">> \o StrippedTokens[2])

\* C34 witness: "Al Bo QB REMOVE" gave "Al Bo".
C34_Witness ==
    /\ lib_call.fn = "extractPlayerName"
    /\ lib_result.returned
    /\ lib_call.text = <<"A", "l", " ", "B", "o", " ", "Q", "B", " ",
                         "R", "E", "M", "O", "V", "E">>
    /\ lib_result.value = Given(<<"A", "l", " ", "B", "o">>)

\* The inputs of a list of compareInputWithQueue's result.
InputsOf(list) == {list[k].input : k \in DOMAIN list}

\* C35: compareInputWithQueue places every analysed input in exactly one of
\* inQueue, notInQueue and invalidInputs: invalid exactly when it has no best
\* match, inQueue exactly when the full name of its best match matches at
\* least one scanned queue name under the helper's comparator, notInQueue
\* otherwise; the sizes of the three lists sum to the number of inputs.
C35_ThreeWaySplit ==
    (lib_call.fn = "compareInputWithQueue" /\ lib_result.returned)
        => LET v == lib_result.value
               items == lib_call.inputAnalysis
           IN  /\ ~v.raised
               /\ Len(v.inQueue) + Len(v.notInQueue) + Len(v.invalidInputs)
                      = Len(items)
               /\ \A i \in DOMAIN items :
                     /\ (i \in {v.invalidInputs[k] : k \in DOMAIN v.invalidInputs})
                            <=> ~items[i].bestMatch.found
                     /\ items[i].bestMatch.found
                            => /\ (i \in InputsOf(v.inQueue))
                                      <=> \E k \in DOMAIN lib_call.queueNames :
                                             helperNamesMatch(
                                                 items[i].bestMatch.full_name.str,
                                                 lib_call.queueNames[k])
                               /\ (i \in InputsOf(v.notInQueue))
                                      <=> ~(i \in InputsOf(v.inQueue))

\* The entry is not an exact match of the search name, letter case aside.
NotExact(entry) == Lower(lib_call.searchName) # Lower(entry.fullName)

\* C36: for a candidate that is not an exact case-insensitive match,
\* calculateConfidence returns 0.5 plus 0.2 if its status is Active, plus 0.1
\* if it has a team, plus 0.15 if its position is one of QB, RB, WR, TE, K,
\* DEF, clamped at 1.0; so the confidence of such a candidate is at most 0.95
\* and confidence 1.0 occurs only for exact matches. (In hundredths.)
C36_ConfidenceSum ==
    (lib_call.fn = "findPlayerMatches" /\ lib_result.returned)
        => \A k \in DOMAIN lib_result.value :
              LET entry == lib_result.value[k]
              IN  /\ NotExact(entry)
                     => /\ entry.confidence
                              = 50 + (IF entry.status = "Active" THEN 20 ELSE 0)
                                   + (IF entry.team # "" THEN 10 ELSE 0)
                                   + (IF entry.position \in
                                          {"QB", "RB", "WR", "TE", "K", "DEF"}
                                         THEN 15 ELSE 0)
                        /\ entry.confidence <= 95
                  /\ entry.confidence = 100 => ~NotExact(entry)

\* C36 witness: a list returned with a candidate that is not an exact match
\* and has every bonus, and one that is not exact and has none.
C36_Witness ==
    /\ lib_call.fn = "findPlayerMatches"
    /\ lib_result.returned
    /\ \E k \in DOMAIN lib_result.value :
          NotExact(lib_result.value[k]) /\ lib_result.value[k].confidence = 95
    /\ \E k \in DOMAIN lib_result.value :
          NotExact(lib_result.value[k]) /\ lib_result.value[k].confidence = 50

\* C37: findQueuedPlayers returns a list and never raises, whatever the page
\* holds, a remove button without an enclosing container included; such a
\* miss is recovered where it happens, so clearQueue and validateQueue
\* complete with per-item outcomes and not with a failure of the operation.
C37_ScanNeverRaises ==
    /\ (lib_call.fn = "findQueuedPlayers" /\ Len(lib_result.value) >= 1)
           => ~lib_result.value[1].raised
    /\ (lib_call.fn = "findQueuedPlayers" /\ lib_result.returned)
           => lib_result.value[2] = "per-item outcomes"

\* C38: within one call of addPlayerToQueue the add element is clicked at
\* most once, on every path: found directly, found after a variation was
\* typed, found after the alternative triggers.
C38_ClickedAtMostOnce == Len(obs.clicks) <= 1

\* C39: when addPlayerToQueue has returned after driving the filter input
\* and the input has a change handler, clearSearchInput has run: the input
\* is empty, the handler was called with the empty value, and the host's
\* filter is empty unless the page's handler raised on that call.
C39_FilterReset ==
    (add_pc = "returned" /\ obs.driven # <<>> /\ hasHandler)
        => /\ obs.cleared
           /\ inputValue = <<>>
           /\ obs.clearRaised \/ hostFilter = <<>>

\* A call that typed all six variations, found nothing, and returned with
\* the filter reset through the handler.
C39_Witness ==
    /\ add_pc = "returned"
    /\ hasHandler
    /\ Len(obs.driven) = 6
    /\ obs.accepted
    /\ ~obs.clearRaised
    /\ addResult = FALSE
    /\ hostFilter = <<>>

\* ------------------------------------------- getPlayers(): the metadata
\* A variant in which a failed write makes getPlayers raise.
Persisted_orRaised(raises, response) == IF raises THEN "raised" ELSE response

\* Lines 72-78: a write that raised is caught and logged (the values that
\* chrome.storage.local.set rejects with and that localStorage.setItem
\* throws are Error objects, so error.message is read without raising);
\* either way the response is returned.
Persisted(raises, response) == response

\* The write of the metadata that was attempted last, when it raised.
StorageSet(c, raises) ==
    IF raises THEN [fn |-> "storage.set", call |-> c] ELSE NoCall

\* Lines 34 and 147-153: getPlayers() with forceRefresh left at its default,
\* as getAllPlayers calls it.
API_Get(c) ==
    /\ API_CallWith(c, FALSE)
    /\ UNCHANGED <<rosterSide, libSide>>

\* Lines 55-78: the metadata is written with chrome.storage.local.set or
\* with localStorage.setItem; the write succeeds or throws.
API_Persist(c) ==
    /\ call[c].pc = "saving"
    /\ \E raises \in BOOLEAN :
         /\ call' = [call EXCEPT ![c].pc = "done",
                         ![c].result = Persisted(raises, call[c].response)]
         /\ lib_call' = StorageSet(c, raises)
    /\ UNCHANGED <<apiCache, lastFetch, now, uiSide, rosterSide,
                   lib_result, regexCache>>

PersistStep ==
    \E c \in Calls : API_Get(c) \/ API_Wake(c) \/ API_Respond(c) \/ API_Persist(c)

NextPersist == PersistStep \/ Tick

SpecPersist == InitApiOnly /\ [][NextPersist]_vars

\* The call whose write of the metadata raised and which has returned
\* since, without having been called again.
WriteRaisedIn(c) ==
    /\ lib_call.fn = "storage.set"
    /\ lib_call.call = c
    /\ call[c].pc = "done"
    /\ call[c].response # "none"

\* C40: a getPlayers call whose fetch succeeded and whose write of the
\* metadata raised returns the fetched roster, and the cache holds a
\* fetched roster: the one of this call when no other call was made.
C40_PersistFailureHarmless ==
    \A c \in Calls :
        WriteRaisedIn(c) =>
            /\ call[c].result = call[c].response
            /\ call[c].result \in Rosters
            /\ ~call[c].failed
            /\ apiCache.present
            /\ apiCache.data \in Rosters
            /\ (\A d \in Calls \ {c} : call[d].pc = "idle")
                   => apiCache.data = call[c].response

\* The only call made fetched rosterA, its write of the metadata raised,
\* and it returned rosterA with the cache holding rosterA.
C40_Witness ==
    /\ WriteRaisedIn(1)
    /\ \A d \in Calls \ {1} : call[d].pc = "idle"
    /\ call[1].result = "rosterA"
    /\ apiCache = CacheEntry("rosterA", apiCache.timestamp)

====
